---- MODULE Spec2Model ----
(***************************************************************************)
(* Ticket store and knowledge-graph cache of backend/agents/kb_store.py.   *)
(*                                                                         *)
(* Python values are tagged records:                                       *)
(*   None  [k |-> "none"]                                                  *)
(*   str   [k |-> "str",  s |-> sequence of one-character strings]         *)
(*   int   [k |-> "int",  s |-> the digits str() prints]                   *)
(*   list  [k |-> "list", items |-> sequence of values]                    *)
(*   dict  [k |-> "dict", d |-> function from key names to values]         *)
(* A Python string is the sequence of its characters, so strip, split,     *)
(* lower, replace, len and slicing are computed as the code computes them. *)
(***************************************************************************)
EXTENDS Integers, Sequences, FiniteSets, TLC

(***************************************************************************)
(* Python values                                                           *)
(***************************************************************************)
PyNone == [k |-> "none"]
PyStr(chars) == [k |-> "str", s |-> chars]
PyInt(digits) == [k |-> "int", s |-> digits]
PyList(items) == [k |-> "list", items |-> items]
PyDict(d) == [k |-> "dict", d |-> d]

IsStr(v) == v.k = "str"
IsList(v) == v.k = "list"
IsDict(v) == v.k = "dict"

\* bool(v)
Truthy(v) ==
    CASE v.k = "none" -> FALSE
      [] v.k = "str"  -> v.s # <<>>
      [] v.k = "int"  -> v.s # <<"0">>
      [] v.k = "list" -> v.items # <<>>
      [] v.k = "dict" -> DOMAIN v.d # {}

\* a or b
Or(a, b) == IF Truthy(a) THEN a ELSE b

\* str(v), as a character sequence; containers print an opaque bracket pair
Str(v) ==
    CASE v.k = "none" -> <<"N", "o", "n", "e">>
      [] v.k = "str"  -> v.s
      [] v.k = "int"  -> v.s
      [] v.k = "list" -> <<"[", "]">>
      [] v.k = "dict" -> <<"{", "}">>

\* t.get(key) on a dict value
Get(t, key) == IF key \in DOMAIN t.d THEN t.d[key] ELSE PyNone

(***************************************************************************)
(* Strings                                                                 *)
(***************************************************************************)
Whitespace == {" ", "\t"}

UpperToLower ==
    [c \in {"A","B","C","D","E","F","G","H","I","J","K","L","M","N","O","P",
            "Q","R","S","T","U","V","W","X","Y","Z"} |->
        CASE c = "A" -> "a" [] c = "B" -> "b" [] c = "C" -> "c" [] c = "D" -> "d"
          [] c = "E" -> "e" [] c = "F" -> "f" [] c = "G" -> "g" [] c = "H" -> "h"
          [] c = "I" -> "i" [] c = "J" -> "j" [] c = "K" -> "k" [] c = "L" -> "l"
          [] c = "M" -> "m" [] c = "N" -> "n" [] c = "O" -> "o" [] c = "P" -> "p"
          [] c = "Q" -> "q" [] c = "R" -> "r" [] c = "S" -> "s" [] c = "T" -> "t"
          [] c = "U" -> "u" [] c = "V" -> "v" [] c = "W" -> "w" [] c = "X" -> "x"
          [] c = "Y" -> "y" [] c = "Z" -> "z"]

\* s.lower()
Lower(s) ==
    [i \in 1..Len(s) |-> IF s[i] \in DOMAIN UpperToLower THEN UpperToLower[s[i]] ELSE s[i]]

RECURSIVE LStrip(_)
LStrip(s) == IF s # <<>> /\ Head(s) \in Whitespace THEN LStrip(Tail(s)) ELSE s

RECURSIVE RStrip(_)
RStrip(s) ==
    IF s # <<>> /\ s[Len(s)] \in Whitespace THEN RStrip(SubSeq(s, 1, Len(s) - 1)) ELSE s

\* s.strip()
Strip(s) == RStrip(LStrip(s))

\* s[:n]
Prefix(s, n) == IF Len(s) > n THEN SubSeq(s, 1, n) ELSE s

\* s.replace(" ", "_")
ReplaceSpaces(s) == [i \in 1..Len(s) |-> IF s[i] = " " THEN "_" ELSE s[i]]

\* s.split(): the maximal runs of non-whitespace characters, in order
RECURSIVE SplitFrom(_, _, _)
SplitFrom(s, cur, acc) ==
    IF s = <<>>
    THEN IF cur = <<>> THEN acc ELSE Append(acc, cur)
    ELSE IF Head(s) \in Whitespace
         THEN SplitFrom(Tail(s), <<>>, IF cur = <<>> THEN acc ELSE Append(acc, cur))
         ELSE SplitFrom(Tail(s), Append(cur, Head(s)), acc)

Split(s) == SplitFrom(s, <<>>, <<>>)

\* hashlib.sha1(text).hexdigest(): a whitespace-free string that determines
\* the text (digest collisions are not modelled)
Sha1Hex(text) == <<"#">> \o [i \in 1..Len(text) |-> IF text[i] \in Whitespace THEN "+" ELSE text[i]]

IdSafeLen == 200
StepLabelLen == 140

\* _make_id(prefix, value): f"{prefix}:{safe}:{h}"; value is a string at every call site
MakeId(prefix, value) ==
    LET v == Strip(value)
    IN  prefix \o <<":">> \o Prefix(ReplaceSpaces(v), IdSafeLen) \o <<":">> \o Sha1Hex(v)

\* _hash_text(text)
HashText(text) == Sha1Hex(text)

\* the prefixes the builder passes to _make_id
P_TICKET == <<"t","i","c","k","e","t">>
P_TECHNICIAN == <<"t","e","c","h","n","i","c","i","a","n">>
P_CATEGORY == <<"c","a","t","e","g","o","r","y">>
P_ROOTCAUSE == <<"r","o","o","t","c","a","u","s","e">>
P_ASSET == <<"a","s","s","e","t">>
P_STEP == <<"s","t","e","p">>
P_CLIENT == <<"c","l","i","e","n","t">>
P_IMPACT == <<"i","m","p","a","c","t">>

\* left fold of Op over the sequence s
RECURSIVE FoldSeq(_, _, _)
FoldSeq(Op(_, _), acc, s) == IF s = <<>> THEN acc ELSE FoldSeq(Op, Op(acc, Head(s)), Tail(s))

(***************************************************************************)
(* _extract_steps_from_ticket                                              *)
(***************************************************************************)
WorklogKeys == <<"worklog", "work_log", "work_logs", "logs">>

\* one entry of a worklog-like list
WorklogEntrySteps(steps, entry) ==
    IF IsDict(entry)
    THEN LET text == Or(Or(Get(entry, "text"), Get(entry, "note")), Get(entry, "description"))
         IN  IF Truthy(text) THEN Append(steps, Str(text)) ELSE steps
    ELSE Append(steps, Str(entry))

\* the strings collected before the dedupe, in source order
RawSteps(t) ==
    LET rs == Get(t, "resolutionSteps")
        s0 == IF IsList(rs) THEN FoldSeq(LAMBDA acc, s: Append(acc, Str(s)), <<>>, rs.items)
              ELSE <<>>
        s1 == FoldSeq(LAMBDA acc, key:
                        LET val == Get(t, key)
                        IN  IF IsList(val) THEN FoldSeq(WorklogEntrySteps, acc, val.items)
                            ELSE acc,
                      s0, WorklogKeys)
        res == Get(t, "resolution")
    IN  IF Truthy(res) /\ IsStr(res) THEN Append(s1, res.s) ELSE s1

\* a variant of the dedupe loop that tests the string before trimming it
DedupeUntrimmed(cleaned, s) ==
    IF s # <<>> /\ \A i \in 1..Len(cleaned) : cleaned[i] # s
    THEN Append(cleaned, Strip(s))
    ELSE cleaned

\* the dedupe loop: strip, drop empties, first occurrence wins
DedupeStep(cleaned, s) ==
    LET s2 == Strip(s)
    IN  IF s2 # <<>> /\ \A i \in 1..Len(cleaned) : cleaned[i] # s2
        THEN Append(cleaned, s2)
        ELSE cleaned

ExtractSteps(t) == FoldSeq(DedupeStep, <<>>, RawSteps(t))

(***************************************************************************)
(* _build_kg_from_tickets                                                  *)
(*                                                                         *)
(* The builder's locals are the record g: nodes (the values of             *)
(* nodes_by_key in insertion order), edges, and raised (an exception left  *)
(* the function, so nothing is returned).                                  *)
(***************************************************************************)
EmptyStr == PyStr(<<>>)
EmptyGraph == [nodes |-> <<>>, edges |-> <<>>, raised |-> FALSE]
Raise(g) == [g EXCEPT !.raised = TRUE]

RECURSIVE Gcd(_, _)
Gcd(a, b) == IF b = 0 THEN a ELSE Gcd(b, a % b)

\* float(n / d) for small naturals: two quotients are the same float exactly
\* when they are the same rational, so a weight is the reduced fraction
Weight(n, d) == LET g == Gcd(n, d) IN <<n \div g, d \div g>>
DefaultWeight == Weight(1, 1)

\* add_node: a key already present keeps its first node
NodePresent(nodes, key) == \E i \in 1..Len(nodes) : nodes[i].id = key

\* a variant of add_node without the "if key not in nodes_by_key" test
AddNodeAlways(g, key, node_type, label, meta) ==
    [g EXCEPT !.nodes = Append(@, [id |-> key, type |-> node_type,
                                    label |-> label, meta |-> meta])]

AddNode(g, key, node_type, label, meta) ==
    IF NodePresent(g.nodes, key)
    THEN g
    ELSE [g EXCEPT !.nodes = Append(@, [id |-> key, type |-> node_type,
                                         label |-> label, meta |-> meta])]

\* add_edge
AddEdge(g, src, tgt, rel, weight) ==
    [g EXCEPT !.edges = Append(@, [source |-> src, target |-> tgt,
                                    type |-> rel, weight |-> weight])]

\* a variant of line 221 that prefers the display identifier
TidRawDisplayFirst(t) == Or(Or(Get(t, "displayId"), Get(t, "ticketId")), Get(t, "id"))

\* t.get("ticketId") or t.get("id") or t.get("displayId")
TidRaw(t) == Or(Or(Get(t, "ticketId"), Get(t, "id")), Get(t, "displayId"))

TicketNodeId(t) == MakeId(P_TICKET, Str(TidRaw(t)))

\* first pass, one ticket: the Ticket node
TicketNodePass(g, t) ==
    IF g.raised THEN g
    ELSE IF ~IsDict(t) THEN Raise(g)
    ELSE IF ~Truthy(TidRaw(t)) THEN g
    ELSE LET id == TicketNodeId(t)
             label == Str(Or(Or(Or(Get(t, "displayId"), Get(t, "ticketId")),
                                Get(t, "subject")), PyStr(id)))
         IN  AddNode(g, id, "Ticket", label, [ticket |-> t])

\* a variant of the technician block whose edge runs from the ticket to the technician
TechnicianRelReversed(g, t, tid) ==
    LET tech == Or(Or(Get(t, "technician"), Get(t, "resolver")), Get(t, "assignedTo"))
        user_id == IF IsDict(tech) THEN Or(Get(tech, "userId"), Get(tech, "id")) ELSE tech
        name == IF IsDict(tech) THEN Or(Get(tech, "name"), Get(tech, "displayName")) ELSE tech
    IN  IF Truthy(user_id)
        THEN LET nid == MakeId(P_TECHNICIAN, Str(user_id))
             IN  AddEdge(AddNode(g, nid, "Technician", Str(Or(name, user_id)), [raw |-> tech]),
                         tid, nid, "resolved", DefaultWeight)
        ELSE g

\* Technician -> Ticket (resolved)
TechnicianRel(g, t, tid) ==
    LET tech == Or(Or(Get(t, "technician"), Get(t, "resolver")), Get(t, "assignedTo"))
        user_id == IF IsDict(tech) THEN Or(Get(tech, "userId"), Get(tech, "id")) ELSE tech
        name == IF IsDict(tech) THEN Or(Get(tech, "name"), Get(tech, "displayName")) ELSE tech
    IN  IF Truthy(user_id)
        THEN LET nid == MakeId(P_TECHNICIAN, Str(user_id))
             IN  AddEdge(AddNode(g, nid, "Technician", Str(Or(name, user_id)), [raw |-> tech]),
                         nid, tid, "resolved", DefaultWeight)
        ELSE g

\* Ticket -> Category; ' / ' + subcat raises TypeError unless subcat is a string
CategoryRel(g, t, tid) ==
    LET cat == Or(Get(t, "category"), Get(t, "type"))
        subcat == Or(Get(t, "subcategory"), Get(t, "sub_type"))
    IN  IF ~Truthy(cat) THEN g
        ELSE IF Truthy(subcat) /\ ~IsStr(subcat) THEN Raise(g)
        ELSE LET cat_key == IF Truthy(subcat) THEN Str(cat) \o <<":">> \o Str(subcat)
                            ELSE Str(cat)
                 nid == MakeId(P_CATEGORY, cat_key)
                 label == IF Truthy(subcat) THEN Str(cat) \o <<" ", "/", " ">> \o subcat.s
                          ELSE Str(cat)
             IN  AddEdge(AddNode(g, nid, "Category", label,
                                 [category |-> cat, subcategory |-> subcat]),
                         tid, nid, "category", DefaultWeight)

\* Ticket -> RootCause
RootCauseRel(g, t, tid) ==
    LET rc == Or(Or(Get(t, "rootCause"), Get(t, "root_cause")), Get(t, "cause"))
    IN  IF Truthy(rc)
        THEN LET nid == MakeId(P_ROOTCAUSE, Str(rc))
             IN  AddEdge(AddNode(g, nid, "RootCause", Str(rc), [raw |-> rc]),
                         tid, nid, "root_cause", DefaultWeight)
        ELSE g

\* Ticket -> Asset
AssetRel(g, t, tid) ==
    LET asset == Or(Or(Get(t, "asset"), Get(t, "device")), Get(t, "cmdb_asset"))
        aid == IF IsDict(asset)
               THEN Or(Or(Get(asset, "id"), Get(asset, "assetId")), Get(asset, "name"))
               ELSE asset
        label == IF IsDict(asset) THEN Str(Or(Get(asset, "name"), aid)) ELSE Str(asset)
    IN  IF Truthy(asset)
        THEN LET nid == MakeId(P_ASSET, Str(aid))
             IN  AddEdge(AddNode(g, nid, "Asset", label, [raw |-> asset]),
                         tid, nid, "asset", DefaultWeight)
        ELSE g

\* a variant of the step loop that derives the Step id from the ticket and the text
StepRelPerTicket(g, t, tid) ==
    FoldSeq(LAMBDA acc, s:
                LET nid == MakeId(P_STEP, HashText(tid \o s))
                IN  AddEdge(AddNode(acc, nid, "Step", s, [step |-> s]),
                            tid, nid, "step", DefaultWeight),
            g, ExtractSteps(t))

\* Ticket -> Step, one per extracted step
StepRel(g, t, tid) ==
    FoldSeq(LAMBDA acc, s:
                LET nid == MakeId(P_STEP, HashText(s))
                    label == IF Len(s) > StepLabelLen
                             THEN Prefix(s, StepLabelLen) \o <<".", ".", ".">>
                             ELSE s
                IN  AddEdge(AddNode(acc, nid, "Step", label, [step |-> s]),
                            tid, nid, "step", DefaultWeight),
            g, ExtractSteps(t))

\* a variant of the client block that gives the node the type Category
ClientRelAsCategory(g, t, tid) ==
    LET client == Or(Or(Get(t, "client"), Get(t, "site")), Get(t, "location"))
    IN  IF Truthy(client)
        THEN LET nid == MakeId(P_CLIENT, Str(client))
             IN  AddEdge(AddNode(g, nid, "Category", Str(client), <<>>),
                         tid, nid, "client_site", DefaultWeight)
        ELSE g

\* Ticket -> Client
ClientRel(g, t, tid) ==
    LET client == Or(Or(Get(t, "client"), Get(t, "site")), Get(t, "location"))
    IN  IF Truthy(client)
        THEN LET nid == MakeId(P_CLIENT, Str(client))
             IN  AddEdge(AddNode(g, nid, "Client", Str(client), <<>>),
                         tid, nid, "client_site", DefaultWeight)
        ELSE g

\* a variant of the impact block that adds the edge without the node
ImpactRelWithoutNode(g, t, tid) ==
    LET impact == Or(Get(t, "impact"), Get(t, "severity"))
    IN  IF Truthy(impact)
        THEN AddEdge(g, tid, MakeId(P_IMPACT, Str(impact)), "impact", DefaultWeight)
        ELSE g

\* Ticket -> Impact
ImpactRel(g, t, tid) ==
    LET impact == Or(Get(t, "impact"), Get(t, "severity"))
    IN  IF Truthy(impact)
        THEN LET nid == MakeId(P_IMPACT, Str(impact))
             IN  AddEdge(AddNode(g, nid, "Impact", Str(impact), <<>>),
                         tid, nid, "impact", DefaultWeight)
        ELSE g

\* second pass, one ticket: the related nodes and edges
RelationPass(g, t) ==
    IF g.raised \/ ~Truthy(TidRaw(t)) THEN g
    ELSE LET tid == TicketNodeId(t)
             g1 == TechnicianRel(g, t, tid)
             g2 == CategoryRel(g1, t, tid)
         IN  IF g2.raised THEN g2
             ELSE ImpactRel(ClientRel(StepRel(AssetRel(RootCauseRel(g2, t, tid),
                                                        t, tid), t, tid), t, tid), t, tid)

\* id_map: str(tid_raw) -> ticket node id, over the tickets that have an identifier
IdMap(tickets) ==
    LET keys == {Str(TidRaw(tickets[i])) : i \in {j \in 1..Len(tickets) : Truthy(TidRaw(tickets[j]))}}
    IN  [key \in keys |-> MakeId(P_TICKET, key)]

\* explicit similar links of one ticket
ExplicitSimilarPass(id_map, g, t) ==
    IF ~Truthy(TidRaw(t)) THEN g
    ELSE LET tid == id_map[Str(TidRaw(t))]
             sim_list == Or(Or(Get(t, "similar_ticket_ids"), Get(t, "similar")),
                            Get(t, "relatedTickets"))
         IN  IF IsList(sim_list)
             THEN FoldSeq(LAMBDA acc, sid:
                              IF Str(sid) \in DOMAIN id_map
                              THEN AddEdge(AddEdge(acc, tid, id_map[Str(sid)],
                                                   "similar_to", DefaultWeight),
                                           id_map[Str(sid)], tid, "similar_to", DefaultWeight)
                              ELSE acc,
                          g, sim_list.items)
             ELSE g

MinTokenLen == 2

\* set([tok for tok in subj.split() if len(tok) > 2])
SubjectTokens(t) ==
    LET subj == Lower(Str(Or(Get(t, "subject"), EmptyStr)))
        words == Split(subj)
    IN  {words[i] : i \in {j \in 1..Len(words) : Len(words[j]) > MinTokenLen}}

\* subjects: (str(tid_raw), tokens) of the tickets that have an identifier
RECURSIVE Subjects(_)
Subjects(tickets) ==
    IF tickets = <<>> THEN <<>>
    ELSE LET t == Head(tickets)
         IN  IF Truthy(TidRaw(t))
             THEN <<[id |-> Str(TidRaw(t)), tokens |-> SubjectTokens(t)]>> \o Subjects(Tail(tickets))
             ELSE Subjects(Tail(tickets))

Max(a, b) == IF a >= b THEN a ELSE b

SimNum == 6
SimDen == 10

\* a variant of the threshold test that excludes the boundary: score > 0.6
ScoreExceeds(inter, denom) == inter * SimDen > SimNum * denom

\* score >= 0.6, with score = len(inter) / denom
ScoreReaches(inter, denom) == inter * SimDen >= SimNum * denom

\* a variant of the loop body that adds the edge a -> b alone
OverlapPairOneWay(id_map, g, si, sj) ==
    IF si.tokens = {} \/ sj.tokens = {} THEN g
    ELSE LET inter == Cardinality(si.tokens \cap sj.tokens)
             denom == Max(Cardinality(si.tokens), Cardinality(sj.tokens))
         IN  IF ScoreReaches(inter, denom)
             THEN AddEdge(g, id_map[si.id], id_map[sj.id], "similar_to", Weight(inter, denom))
             ELSE g

\* one pair (i, j) of the subject-overlap loop
OverlapPair(id_map, g, si, sj) ==
    IF si.tokens = {} \/ sj.tokens = {} THEN g
    ELSE LET inter == Cardinality(si.tokens \cap sj.tokens)
             denom == Max(Cardinality(si.tokens), Cardinality(sj.tokens))
         IN  IF ScoreReaches(inter, denom)
             THEN LET a == id_map[si.id]
                      b == id_map[sj.id]
                  IN  AddEdge(AddEdge(g, a, b, "similar_to", Weight(inter, denom)),
                              b, a, "similar_to", Weight(inter, denom))
             ELSE g

\* for i in range(n): for j in range(i + 1, n)
RECURSIVE OverlapLoop(_, _, _, _, _)
OverlapLoop(id_map, g, subjects, i, j) ==
    IF i > Len(subjects) THEN g
    ELSE IF j > Len(subjects) THEN OverlapLoop(id_map, g, subjects, i + 1, i + 2)
    ELSE OverlapLoop(id_map, OverlapPair(id_map, g, subjects[i], subjects[j]),
                     subjects, i, j + 1)

\* a variant of lines 326-353 that does what the comment at line 326 says:
\* the subject pass runs only if the explicit lists added no edge
SubjectPassUnlessLinked(id_map, before, after, tickets) ==
    IF after.edges = before.edges
    THEN OverlapLoop(id_map, after, Subjects(tickets), 1, 2)
    ELSE after

\* lines 326-353: the subject pass, on the graph the explicit lists left
SubjectPass(id_map, before, after, tickets) ==
    OverlapLoop(id_map, after, Subjects(tickets), 1, 2)

\* _build_kg_from_tickets(tickets): [nodes, edges, raised]
BuildKgFromTickets(tickets) ==
    LET g1 == FoldSeq(TicketNodePass, EmptyGraph, tickets)
        g2 == FoldSeq(RelationPass, g1, tickets)
    IN  IF g2.raised THEN Raise(EmptyGraph)
        ELSE LET id_map == IdMap(tickets)
                 g3 == FoldSeq(LAMBDA acc, t: ExplicitSimilarPass(id_map, acc, t), g2, tickets)
             IN  SubjectPass(id_map, g2, g3, tickets)

(***************************************************************************)
(* Ticket records used as blob contents                                    *)
(***************************************************************************)
Chars_1 == <<"1">>
Chars_2 == <<"2">>
Chars_3 == <<"3">>
S_PrinterJamError == <<"p","r","i","n","t","e","r"," ","j","a","m"," ","e","r","r","o","r">>
S_PrinterJamIssue == <<"p","r","i","n","t","e","r"," ","j","a","m"," ","i","s","s","u","e">>
S_ClearPaperTray == <<"C","l","e","a","r"," ","p","a","p","e","r"," ","t","r","a","y">>
S_RestartPrinter == <<"R","e","s","t","a","r","t"," ","p","r","i","n","t","e","r">>
S_RestartPrinterPadded == <<" ">> \o S_RestartPrinter \o <<" ">>
S_VpnFailsAfterUpdate ==
    <<"v","p","n"," ","c","l","i","e","n","t"," ","f","a","i","l","s"," ",
      "a","f","t","e","r"," ","u","p","d","a","t","e">>
S_VpnFailsUpper == <<"V","P","N"," ","C","l","i","e","n","t"," ","f","a","i","l","s">>
S_VpnLoginError ==
    <<"v","p","n"," ","c","l","i","e","n","t"," ","l","o","g","i","n"," ","e","r","r","o","r">>
S_VpnIsDown == <<"v","p","n"," ","c","l","i","e","n","t"," ","i","s"," ","d","o","w","n">>
S_JaneDoe == <<"J","a","n","e"," ","D","o","e">>
S_Bob == <<"B","o","b">>
S_U1 == <<"u","1">>
S_Network == <<"N","e","t","w","o","r","k">>
S_Vpn == <<"V","P","N">>
S_Acme == <<"A","c","m","e">>
S_High == <<"H","i","g","h">>
S_Inc3 == <<"I","N","C","-","3">>
S_Oops == <<"o","o","p","s">>
S_Driver == <<"D","r","i","v","e","r">>
S_Printer == <<"P","r","i","n","t","e","r">>
S_CheckCables == <<"C","h","e","c","k"," ","c","a","b","l","e","s">>

\* {"ticketId": "1", "subject": "printer jam error",
\*  "resolutionSteps": ["Clear paper tray", "Restart printer"]}
T_Printer1 ==
    PyDict([ticketId |-> PyStr(Chars_1), subject |-> PyStr(S_PrinterJamError),
            resolutionSteps |-> PyList(<<PyStr(S_ClearPaperTray), PyStr(S_RestartPrinter)>>)])

\* {"ticketId": "2", "subject": "printer jam issue", "resolutionSteps": ["Clear paper tray"]}
T_Printer2 ==
    PyDict([ticketId |-> PyStr(Chars_2), subject |-> PyStr(S_PrinterJamIssue),
            resolutionSteps |-> PyList(<<PyStr(S_ClearPaperTray)>>)])

\* a five-token subject, a bare-string technician, category with subcategory
T_Vpn3 ==
    PyDict([ticketId |-> PyStr(Chars_3), displayId |-> PyStr(S_Inc3),
            subject |-> PyStr(S_VpnFailsAfterUpdate), technician |-> PyStr(S_JaneDoe),
            category |-> PyStr(S_Network), subcategory |-> PyStr(S_Vpn),
            client |-> PyStr(S_Acme), impact |-> PyStr(S_High)])

\* an integer ticketId, three of the five tokens of T_Vpn3 (in another case),
\* an object technician
T_Vpn4 ==
    PyDict([ticketId |-> PyInt(<<"4">>), subject |-> PyStr(S_VpnFailsUpper),
            technician |-> PyDict([userId |-> PyStr(S_U1), name |-> PyStr(S_JaneDoe)]),
            category |-> PyStr(S_Network), client |-> PyStr(S_Acme), impact |-> PyStr(S_High)])

\* identified by "id" only; steps in a worklog and a free-text resolution; an
\* explicit similarity list naming ticket 3 and an unknown ticket
T_Vpn5 ==
    PyDict([id |-> PyStr(<<"5">>), subject |-> PyStr(S_VpnLoginError),
            technician |-> PyStr(S_JaneDoe),
            worklog |-> PyList(<<PyDict([text |-> PyStr(S_ClearPaperTray)]),
                                 PyStr(S_RestartPrinterPadded)>>),
            resolution |-> PyStr(S_ClearPaperTray),
            similar_ticket_ids |-> PyList(<<PyStr(Chars_3), PyInt(<<"9">>)>>)])

\* a short word ("is") in the subject
T_Vpn6 == PyDict([ticketId |-> PyStr(<<"6">>), subject |-> PyStr(S_VpnIsDown)])

\* no identifier at all
T_NoId == PyDict([subject |-> PyStr(S_PrinterJamError), technician |-> PyStr(S_JaneDoe)])

\* shares ticketId "1", has no subject, names itself as similar
T_Dup1 ==
    PyDict([ticketId |-> PyStr(Chars_1), technician |-> PyStr(S_Bob),
            similar |-> PyList(<<PyStr(Chars_1)>>)])

\* no subject, no similarity list
T_NoSubject == PyDict([ticketId |-> PyStr(<<"7">>), technician |-> PyStr(S_Bob),
                       impact |-> PyStr(S_High)])

\* a numeric subcategory
T_NumSubcat ==
    PyDict([ticketId |-> PyStr(<<"8">>), category |-> PyStr(S_Network),
            subcategory |-> PyInt(<<"7">>)])

\* a record that is not a mapping
T_NotDict == PyStr(S_Oops)

\* steps in every place: {"ticketId": "12",
\*  "resolutionSteps": ["Restart printer", "  "],
\*  "worklog": ["Check cables"],
\*  "logs": [{"note": "Clear paper tray "}, {"text": "", "description": "Restart printer"}],
\*  "resolution": " Clear paper tray"}
T_Steps ==
    PyDict([ticketId |-> PyStr(<<"1","2">>),
            resolutionSteps |-> PyList(<<PyStr(S_RestartPrinter), PyStr(<<" ", " ">>)>>),
            worklog |-> PyList(<<PyStr(S_CheckCables)>>),
            logs |-> PyList(<<PyDict([note |-> PyStr(S_ClearPaperTray \o <<" ">>)]),
                              PyDict([text |-> PyStr(<<>>),
                                      description |-> PyStr(S_RestartPrinter)])>>),
            resolution |-> PyStr(<<" ">> \o S_ClearPaperTray)])

\* the technician given by a bare identifier: {"ticketId": "13", "technician": "u1"}
T_TechId == PyDict([ticketId |-> PyStr(<<"1","3">>), technician |-> PyStr(S_U1)])

\* three of the five tokens of T_Vpn3, which its "similar" list names; a root
\* cause, an asset object and a step:
\* {"ticketId": "14", "subject": "VPN Client fails", "similar": ["3"],
\*  "rootCause": "Driver", "asset": {"assetId": "a1", "name": "Printer"},
\*  "resolutionSteps": ["Restart printer"]}
T_Linked ==
    PyDict([ticketId |-> PyStr(<<"1","4">>), subject |-> PyStr(S_VpnFailsUpper),
            similar |-> PyList(<<PyStr(Chars_3)>>), rootCause |-> PyStr(S_Driver),
            asset |-> PyDict([assetId |-> PyStr(<<"a","1">>), name |-> PyStr(S_Printer)]),
            resolutionSteps |-> PyList(<<PyStr(S_RestartPrinter)>>)])

TicketPool ==
    {T_Printer1, T_Printer2, T_Vpn3, T_Vpn4, T_Vpn5, T_Vpn6, T_NoId, T_Dup1, T_NoSubject,
     T_NumSubcat, T_NotDict, T_Steps, T_TechId, T_Linked}

MaxTickets == 2

\* the ticket lists of at most MaxTickets records of the pool
TicketLists == UNION {[1..n -> TicketPool] : n \in 0..MaxTickets}

(***************************************************************************)
(* Module state of kb_store and the threads that call into it              *)
(***************************************************************************)
VARIABLES
    TICKETS,          \* _TICKETS
    LAST_UPDATED,     \* _LAST_UPDATED
    LAST_SOURCE,      \* _LAST_SOURCE
    KG_NODES,         \* _KG_NODES
    KG_EDGES,         \* _KG_EDGES
    KG_LAST_BUILT,    \* _KG_LAST_BUILT
    tickets_lock,     \* owner of _TICKETS_LOCK, or NoThread
    kg_lock,          \* owner of _KG_LOCK, or NoThread
    s3_enabled,       \* S3_BUCKET and _HAS_S3_HELPER
    local_file,       \* the file at LOCAL_FALLBACK
    imported,         \* the module-level statements have run
    pc,               \* per thread: the statement it is at
    stack,            \* per thread: where its calls return to
    calls,            \* public calls made so far, by all threads
    kb,               \* per thread: reload's local kb
    fetched_from,     \* per thread: reload's local fetched_from
    s3_result,        \* per thread: what fetch_kb_from_s3 did in this reload
    local_result,     \* per thread: what _load_kb_from_local found in this reload
    tickets,          \* per thread: _build_kg_cache's local tickets
    built,            \* per thread: _build_kg_cache's locals nodes, edges
    status,           \* per thread: refresh_kb's local status
    ret               \* per thread: the value (or exception) of its last return

globals == <<TICKETS, LAST_UPDATED, LAST_SOURCE, KG_NODES, KG_EDGES, KG_LAST_BUILT>>
locks == <<tickets_lock, kg_lock>>
env == <<s3_enabled, local_file, imported>>
control == <<pc, stack, calls>>
reload_locals == <<kb, fetched_from, s3_result, local_result>>
build_locals == <<tickets, built>>

\* find_ticket of kb_store, and the search module backend/index.py, which a
\* single thread calls
VARIABLES
    ticket_id_or_display,   \* per thread: find_ticket's argument
    query,                  \* per thread: search_tickets_by_text's argument
    query_top_k,            \* per thread: search_tickets_by_text's argument top_k
    USE_VECTOR_SEARCH_FLAG, \* index.py line 49
    SEARCH_CACHE,           \* _SEARCH_CACHE: search key -> cached response
    embedding_cache,        \* _embedding_cache: embedding key -> vector or None
    at,                     \* the statement the searching thread is at
    query_text,             \* search_tickets' argument
    top_k,                  \* search_tickets' argument
    emb,                    \* search_tickets' local emb, as the last search left it
    results,                \* search_tickets' local results
    attempt,                \* get_bedrock_embedding's loop variable
    issued,                 \* the collaborator calls of the current search, in order
    from_cache,             \* the current search was answered from _SEARCH_CACHE
    searches,               \* searches started so far
    response                \* what the last search returned

find_locals == <<ticket_id_or_display, query, query_top_k>>
search_caches == <<SEARCH_CACHE, embedding_cache>>
search_locals == <<query_text, top_k, emb, results, attempt>>
search_module == <<USE_VECTOR_SEARCH_FLAG, search_caches, at, search_locals, issued,
                   from_cache, searches, response>>
vars == <<globals, locks, env, control, reload_locals, build_locals, status, ret,
          find_locals, search_module>>

Threads == {1, 2}
NoThread == 0
Importer == 1

MaxCalls == 2

\* time values: None, or a reading of a coarse clock that advances whenever a
\* public call starts, so time.time() returns the number of calls started so far
NoTime == [k |-> "none"]
Time(n) == [k |-> "time", t |-> n]

\* the source descriptors
SRC_NONE == "none"
SRC_S3 == "s3://bucket/key"
SRC_S3_ERROR == "s3-error"
SRC_LOCAL == "LOCAL_FALLBACK"

\* return values
NoRet == [kind |-> "none"]
Raised(function) == [kind |-> "raised", by |-> function]
RetStatus(count, source, last_updated) ==
    [kind |-> "status", count |-> count, source |-> source, last_updated |-> last_updated]
RetTickets(items) == [kind |-> "tickets", items |-> items]
RetKg(nodes, edges, last_built) ==
    [kind |-> "kg", nodes |-> nodes, edges |-> edges, last_built |-> last_built]

\* JSON documents the blob store or the local file can hold
JsonNumber == PyInt(<<"4", "2">>)
DS_Printers == PyList(<<T_Printer1, T_Printer2>>)
DS_Vpn == PyList(<<T_Vpn3, T_Vpn4>>)
DS_Malformed == PyList(<<T_NumSubcat>>)
EmptyList == PyList(<<>>)
Blobs == {PyNone, JsonNumber, EmptyList, DS_Printers, DS_Vpn, DS_Malformed}

\* the local file: absent, not parseable, or a JSON document
FileMissing == [state |-> "missing"]
FileCorrupt == [state |-> "corrupt"]
FileJson(doc) == [state |-> "json", doc |-> doc]

\* what the collaborators did for one reload
NotFetched == [o |-> "skipped"]
FetchFailed == [o |-> "error"]
Fetched(doc) == [o |-> "ok", doc |-> doc]
NotRead == [o |-> "unread"]
ReadFile(file) == [o |-> "read", file |-> file]

\* len(v) raises TypeError for None and numbers
HasLen(v) == v.k \in {"str", "list", "dict"}
PyLen(v) ==
    CASE v.k = "str"  -> Len(v.s)
      [] v.k = "list" -> Len(v.items)
      [] v.k = "dict" -> Cardinality(DOMAIN v.d)

\* list(v) raises TypeError for None and numbers
Iterable(v) == v.k \in {"list"}

\* _load_kb_from_local(path)
LoadKbFromLocal(file) == IF file.state = "json" THEN file.doc ELSE EmptyList

\* the documents the blob store serves and the local file holds at import:
\* every document when one thread runs alone, well-formed lists when threads race
ConcurrentDocs == {DS_Printers, DS_Vpn}
Files(docs) == {FileMissing, FileCorrupt} \cup {FileJson(b) : b \in docs}

\* no call of find_ticket has been made
FindInit ==
    /\ ticket_id_or_display = [t \in Threads |-> <<>>]
    /\ query = [t \in Threads |-> <<>>]
    /\ query_top_k = [t \in Threads |-> 0]

\* index.py as its import leaves it: both caches empty (lines 168, 320), the
\* vector flag as the environment sets it (lines 49-56), no search started
NoResponse == [kind |-> "none"]
SearchInit(flags) ==
    /\ USE_VECTOR_SEARCH_FLAG \in flags
    /\ SEARCH_CACHE = <<>>
    /\ embedding_cache = <<>>
    /\ at = "idle"
    /\ query_text = <<>>
    /\ top_k = 0
    /\ emb = PyNone
    /\ results = <<>>
    /\ attempt = 0
    /\ issued = <<>>
    /\ from_cache = FALSE
    /\ searches = 0
    /\ response = NoResponse

\* kb_store as its definitions leave it, the importing thread at line 93
KbStoreInit(files) ==
    /\ TICKETS = EmptyList
    /\ LAST_UPDATED = NoTime
    /\ LAST_SOURCE = SRC_NONE
    /\ KG_NODES = <<>>
    /\ KG_EDGES = <<>>
    /\ KG_LAST_BUILT = NoTime
    /\ tickets_lock = NoThread
    /\ kg_lock = NoThread
    /\ s3_enabled \in BOOLEAN
    /\ local_file \in files
    /\ imported = FALSE
    /\ pc = [t \in Threads |-> IF t = Importer THEN "r_fetch" ELSE "idle"]
    /\ stack = [t \in Threads |-> IF t = Importer THEN <<"i_build">> ELSE <<>>]
    /\ calls = 0
    /\ kb = [t \in Threads |-> PyNone]
    /\ fetched_from = [t \in Threads |-> SRC_NONE]
    /\ s3_result = [t \in Threads |-> NotFetched]
    /\ local_result = [t \in Threads |-> NotRead]
    /\ tickets = [t \in Threads |-> <<>>]
    /\ built = [t \in Threads |-> EmptyGraph]
    /\ status = [t \in Threads |-> NoRet]
    /\ ret = [t \in Threads |-> NoRet]

\* the module as its definitions leave it, the importing thread at line 93
InitWith(files) == KbStoreInit(files) /\ FindInit /\ SearchInit({FALSE})

Set(f, t, v) == [f EXCEPT ![t] = v]

\* The statement a caller continues with, by the label its call left on the stack.
\* A caller that continues with another call is taken straight into it:
\*   f_build  refresh_kb line 427, after reload returned: _build_kg_cache()
\*   f_getkg  refresh_kb line 430, after _build_kg_cache: get_kg()
\*   i_build  module line 375, after the reload at import: _build_kg_cache()
ResumePc(label) ==
    CASE label = "top"     -> "idle"
      [] label = "f_build" -> "b_lock"
      [] label = "f_getkg" -> "gk_lock"
      [] label = "i_build" -> "b_lock"
      [] OTHER             -> label

ResumeFrames(label) ==
    CASE label = "f_build" -> <<"f_getkg">>
      [] label = "f_getkg" -> <<"f_ret">>
      [] label = "i_build" -> <<"i_done">>
      [] OTHER             -> <<>>

\* thread t continues in the caller whose label is first in frames
Resume(t, frames) ==
    /\ pc' = Set(pc, t, ResumePc(Head(frames)))
    /\ stack' = Set(stack, t, ResumeFrames(Head(frames)) \o Tail(frames))

\* a normal return of the innermost call of thread t
Return(t, value) ==
    /\ ret' = Set(ret, t, value)
    /\ Resume(t, stack[t])

\* an exception reaches the public caller of thread t
RaiseToCaller(t, function) ==
    /\ ret' = Set(ret, t, Raised(function))
    /\ pc' = Set(pc, t, "idle")
    /\ stack' = Set(stack, t, <<>>)

(***************************************************************************)
(* Public calls                                                            *)
(***************************************************************************)
CanCall(t) == imported /\ pc[t] = "idle" /\ calls < MaxCalls

StartReload(t, frames) ==
    /\ pc' = Set(pc, t, "r_fetch")
    /\ stack' = Set(stack, t, frames)
    /\ kb' = Set(kb, t, PyNone)
    /\ fetched_from' = Set(fetched_from, t, SRC_NONE)
    /\ s3_result' = Set(s3_result, t, NotFetched)
    /\ local_result' = Set(local_result, t, NotRead)
    /\ status' = Set(status, t, NoRet)
    /\ ret' = Set(ret, t, NoRet)

\* a thread calls reload_kb_from_s3_or_local()
CallReload(t) ==
    /\ CanCall(t)
    /\ calls' = calls + 1
    /\ StartReload(t, <<"top">>)
    /\ UNCHANGED <<globals, locks, env, build_locals>>
    /\ UNCHANGED <<find_locals, search_module>>

\* a thread calls refresh_kb(), which starts with reload_kb_from_s3_or_local()
CallRefresh(t) ==
    /\ CanCall(t)
    /\ calls' = calls + 1
    /\ StartReload(t, <<"f_build", "top">>)
    /\ UNCHANGED <<globals, locks, env, build_locals>>
    /\ UNCHANGED <<find_locals, search_module>>

\* a thread calls get_tickets()
CallGetTickets(t) ==
    /\ CanCall(t)
    /\ calls' = calls + 1
    /\ pc' = Set(pc, t, "gt_lock")
    /\ stack' = Set(stack, t, <<"top">>)
    /\ ret' = Set(ret, t, NoRet)
    /\ UNCHANGED <<globals, locks, env, reload_locals, build_locals, status>>
    /\ UNCHANGED <<find_locals, search_module>>

\* a thread calls get_kg()
CallGetKg(t) ==
    /\ CanCall(t)
    /\ calls' = calls + 1
    /\ pc' = Set(pc, t, "gk_lock")
    /\ stack' = Set(stack, t, <<"top">>)
    /\ ret' = Set(ret, t, NoRet)
    /\ UNCHANGED <<globals, locks, env, reload_locals, build_locals, status>>
    /\ UNCHANGED <<find_locals, search_module>>

(***************************************************************************)
(* reload_kb_from_s3_or_local                                              *)
(***************************************************************************)
\* lines 60-65: the attempt to cache the fetched document locally
LocalCacheWrites(doc) == {FileJson(doc)}

\* lines 55-68: the S3 fetch, outside any lock; docs is what the blob store may serve
ReloadFetch(t, docs) ==
    /\ pc[t] = "r_fetch"
    /\ IF s3_enabled
       THEN \/ \E doc \in docs :
                 /\ kb' = Set(kb, t, doc)
                 /\ fetched_from' = Set(fetched_from, t, SRC_S3)
                 /\ s3_result' = Set(s3_result, t, Fetched(doc))
                 /\ \/ local_file' \in LocalCacheWrites(doc)
                    \/ UNCHANGED local_file
            \/ /\ kb' = Set(kb, t, PyNone)
               /\ fetched_from' = Set(fetched_from, t, SRC_S3_ERROR)
               /\ s3_result' = Set(s3_result, t, FetchFailed)
               /\ UNCHANGED local_file
       ELSE UNCHANGED <<kb, fetched_from, s3_result, local_file>>
    /\ pc' = Set(pc, t, "r_local")
    /\ UNCHANGED <<globals, locks, s3_enabled, imported, stack, calls,
                   local_result, build_locals, status, ret>>
    /\ UNCHANGED <<find_locals, search_module>>

\* lines 70-76: the local fallback
ReloadLocal(t) ==
    /\ pc[t] = "r_local"
    /\ IF kb[t] = PyNone
       THEN LET loaded == LoadKbFromLocal(local_file)
            IN  /\ kb' = Set(kb, t, IF loaded = PyNone THEN EmptyList ELSE loaded)
                /\ fetched_from' = Set(fetched_from, t,
                                       IF Truthy(loaded) THEN SRC_LOCAL ELSE fetched_from[t])
                /\ local_result' = Set(local_result, t, ReadFile(local_file))
       ELSE UNCHANGED <<kb, fetched_from, local_result>>
    /\ pc' = Set(pc, t, "r_lock")
    /\ UNCHANGED <<globals, locks, env, stack, calls, s3_result, build_locals, status, ret>>
    /\ UNCHANGED <<find_locals, search_module>>

\* a variant of line 79 that extends the list in place: _TICKETS.extend(kb)
TicketsExtended(old, new) == PyList(old.items \o new.items)

\* what line 79 stores
InstalledTickets(old, new) == new

\* lines 78-79: with _TICKETS_LOCK: _TICKETS = kb
ReloadSetTickets(t) ==
    /\ pc[t] = "r_lock"
    /\ tickets_lock = NoThread
    /\ tickets_lock' = t
    /\ TICKETS' = InstalledTickets(TICKETS, kb[t])
    /\ pc' = Set(pc, t, "r_meta")
    /\ UNCHANGED <<LAST_UPDATED, LAST_SOURCE, KG_NODES, KG_EDGES, KG_LAST_BUILT, kg_lock, env,
                   stack, calls, reload_locals, build_locals, status, ret>>
    /\ UNCHANGED <<find_locals, search_module>>

\* lines 80-85: the metadata, the release of the lock, the call of _build_kg_cache
ReloadSetMeta(t) ==
    /\ pc[t] = "r_meta"
    /\ LAST_UPDATED' = Time(calls)
    /\ LAST_SOURCE' = fetched_from[t]
    /\ tickets_lock' = NoThread
    /\ pc' = Set(pc, t, "b_lock")
    /\ stack' = Set(stack, t, <<"r_ret">> \o stack[t])
    /\ UNCHANGED <<TICKETS, KG_NODES, KG_EDGES, KG_LAST_BUILT, kg_lock, env,
                   calls, reload_locals, build_locals, status, ret>>
    /\ UNCHANGED <<find_locals, search_module>>

\* line 89: the status; len(kb) raises TypeError when kb has no length
ReloadReturn(t) ==
    /\ pc[t] = "r_ret"
    /\ IF HasLen(kb[t])
       THEN LET value == RetStatus(PyLen(kb[t]), fetched_from[t], LAST_UPDATED)
            IN  /\ Return(t, value)
                /\ status' = Set(status, t, IF Head(stack[t]) = "f_build" THEN value ELSE NoRet)
       ELSE /\ IF Head(stack[t]) = "i_build"
               THEN Resume(t, stack[t]) /\ UNCHANGED ret
               ELSE RaiseToCaller(t, "reload_kb_from_s3_or_local")
            /\ UNCHANGED status
    /\ kb' = Set(kb, t, PyNone)
    /\ fetched_from' = Set(fetched_from, t, SRC_NONE)
    /\ s3_result' = Set(s3_result, t, NotFetched)
    /\ local_result' = Set(local_result, t, NotRead)
    /\ UNCHANGED <<globals, locks, env, calls, build_locals>>
    /\ UNCHANGED <<find_locals, search_module>>

(***************************************************************************)
(* get_tickets                                                             *)
(***************************************************************************)
\* line 101 can take _TICKETS_LOCK
TicketsLockAvailable(t) == tickets_lock = NoThread

\* a variant of get_tickets that returns without releasing _TICKETS_LOCK
TicketsLockKept(t) == t

\* the owner of _TICKETS_LOCK once the with block of get_tickets is left
TicketsLockAfterCopy(t) == NoThread

\* a variant of _build_kg_cache that keeps _KG_LOCK when its body raises
KgLockKeptOnRaise(t) == t

\* the owner of _KG_LOCK once an exception has left the with block of
\* _build_kg_cache (lines 365-370)
KgLockAfterRaise(t) == NoThread

\* line 101: with _TICKETS_LOCK
GetTicketsLock(t) ==
    /\ pc[t] = "gt_lock"
    /\ TicketsLockAvailable(t)
    /\ tickets_lock' = t
    /\ pc' = Set(pc, t, "gt_copy")
    /\ UNCHANGED <<globals, kg_lock, env, stack, calls, reload_locals, build_locals, status, ret>>
    /\ UNCHANGED <<find_locals, search_module>>

\* line 103: return list(_TICKETS); list() raises TypeError when _TICKETS is not
\* iterable, and the exception passes through _build_kg_cache (which releases
\* _KG_LOCK) to the try/except of its caller
GetTicketsCopy(t) ==
    /\ pc[t] = "gt_copy"
    /\ tickets_lock' = TicketsLockAfterCopy(t)
    /\ IF Iterable(TICKETS)
       THEN /\ Return(t, RetTickets(TICKETS.items))
            /\ UNCHANGED kg_lock
       ELSE IF Head(stack[t]) = "top"
            THEN RaiseToCaller(t, "get_tickets") /\ UNCHANGED kg_lock
            ELSE /\ kg_lock' = KgLockAfterRaise(t)
                 /\ Resume(t, Tail(stack[t]))
                 /\ UNCHANGED ret
    /\ UNCHANGED <<globals, env, calls, reload_locals, build_locals, status>>
    /\ UNCHANGED <<find_locals, search_module>>

(***************************************************************************)
(* _build_kg_cache                                                         *)
(***************************************************************************)
\* a variant of _build_kg_cache that does not wait for _KG_LOCK
KgLockNotAwaited(t) == TRUE

\* line 365 can take _KG_LOCK
BuildLockAvailable(t) == kg_lock = NoThread

\* lines 365-366: with _KG_LOCK, then the call of get_tickets
BuildLock(t) ==
    /\ pc[t] = "b_lock"
    /\ BuildLockAvailable(t)
    /\ kg_lock' = t
    /\ pc' = Set(pc, t, "gt_lock")
    /\ stack' = Set(stack, t, <<"b_build">> \o stack[t])
    /\ tickets' = Set(tickets, t, <<>>)
    /\ built' = Set(built, t, EmptyGraph)
    /\ UNCHANGED <<globals, tickets_lock, env, calls, reload_locals, status, ret>>
    /\ UNCHANGED <<find_locals, search_module>>

\* lines 366-367: tickets = get_tickets(); nodes, edges = _build_kg_from_tickets(tickets)
\* an exception of the builder leaves the with block and reaches the caller's except
BuildCompute(t) ==
    /\ pc[t] = "b_build"
    /\ LET g == BuildKgFromTickets(ret[t].items)
       IN  /\ tickets' = Set(tickets, t, ret[t].items)
           /\ built' = Set(built, t, g)
           /\ IF g.raised
              THEN kg_lock' = KgLockAfterRaise(t) /\ Resume(t, stack[t])
              ELSE pc' = Set(pc, t, "b_nodes") /\ UNCHANGED <<kg_lock, stack>>
    /\ UNCHANGED <<globals, tickets_lock, env, calls, reload_locals, status, ret>>
    /\ UNCHANGED <<find_locals, search_module>>

\* line 368: _KG_NODES = nodes
BuildSetNodes(t) ==
    /\ pc[t] = "b_nodes"
    /\ KG_NODES' = built[t].nodes
    /\ pc' = Set(pc, t, "b_edges")
    /\ UNCHANGED <<TICKETS, LAST_UPDATED, LAST_SOURCE, KG_EDGES, KG_LAST_BUILT, locks, env,
                   stack, calls, reload_locals, build_locals, status, ret>>
    /\ UNCHANGED <<find_locals, search_module>>

\* what line 369 stores
InstalledEdges(old, new) == new

\* lines 369-370: _KG_EDGES = edges; _KG_LAST_BUILT = time.time(); then the end
\* of the with block and the return
BuildSetEdges(t) ==
    /\ pc[t] = "b_edges"
    /\ KG_EDGES' = InstalledEdges(KG_EDGES, built[t].edges)
    /\ KG_LAST_BUILT' = Time(calls)
    /\ kg_lock' = NoThread
    /\ Resume(t, stack[t])
    /\ tickets' = Set(tickets, t, <<>>)
    /\ built' = Set(built, t, EmptyGraph)
    /\ UNCHANGED <<TICKETS, LAST_UPDATED, LAST_SOURCE, KG_NODES, tickets_lock,
                   env, calls, reload_locals, status, ret>>
    /\ UNCHANGED <<find_locals, search_module>>

(***************************************************************************)
(* get_kg                                                                  *)
(***************************************************************************)
\* a variant of get_kg that copies the cache without waiting for _KG_LOCK
KgLockSkippedByReader(t) == TRUE

\* line 382 can take _KG_LOCK
GetKgLockAvailable(t) == kg_lock = NoThread

\* line 382: with _KG_LOCK
GetKgLock(t) ==
    /\ pc[t] = "gk_lock"
    /\ GetKgLockAvailable(t)
    /\ kg_lock' = t
    /\ pc' = Set(pc, t, "gk_copy")
    /\ UNCHANGED <<globals, tickets_lock, env, stack, calls, reload_locals, build_locals,
                   status, ret>>
    /\ UNCHANGED <<find_locals, search_module>>

\* line 383: the copies of the cache
GetKgCopy(t) ==
    /\ pc[t] = "gk_copy"
    /\ kg_lock' = NoThread
    /\ Return(t, RetKg(KG_NODES, KG_EDGES, KG_LAST_BUILT))
    /\ UNCHANGED <<globals, tickets_lock, env, calls, reload_locals, build_locals, status>>
    /\ UNCHANGED <<find_locals, search_module>>

(***************************************************************************)
(* refresh_kb                                                              *)
(***************************************************************************)
\* lines 431-432: status.update(...); return status
RefreshReturn(t) ==
    /\ pc[t] = "f_ret"
    /\ Return(t, [kind |-> "refresh", count |-> status[t].count, source |-> status[t].source,
                  last_updated |-> status[t].last_updated,
                  kg_nodes |-> Len(ret[t].nodes), kg_edges |-> Len(ret[t].edges),
                  kg_last_built |-> ret[t].last_built])
    /\ UNCHANGED <<globals, locks, env, calls, reload_locals, build_locals, status>>
    /\ UNCHANGED <<find_locals, search_module>>

(***************************************************************************)
(* The module-level statements: lines 93-97 and 373-377                    *)
(***************************************************************************)
\* the import is over: the module's functions can be called
ImportDone(t) ==
    /\ pc[t] = "i_done"
    /\ imported' = TRUE
    /\ pc' = Set(pc, t, "idle")
    /\ stack' = Set(stack, t, <<>>)
    /\ ret' = Set(ret, t, NoRet)
    /\ UNCHANGED <<globals, locks, s3_enabled, local_file, calls, reload_locals,
                   build_locals, status>>
    /\ UNCHANGED <<find_locals, search_module>>

(***************************************************************************)
(* find_ticket                                                             *)
(***************************************************************************)
RetFound(ticket) == [kind |-> "found", ticket |-> ticket]
RetNotFound == [kind |-> "notfound"]

\* t.get(key, default) on a dict value
GetOr(t, key, default) == IF key \in DOMAIN t.d THEN t.d[key] ELSE default

\* line 119: the comparison of one record with the lowered identifier
Matches(t, tid) ==
    \/ Lower(Str(GetOr(t, "ticketId", PyStr(<<>>)))) = tid
    \/ Lower(Str(GetOr(t, "displayId", PyStr(<<>>)))) = tid

\* lines 118-121: the scan; t.get raises AttributeError on a record that is
\* not a mapping
RECURSIVE ScanTickets(_, _)
ScanTickets(items, tid) ==
    IF items = <<>> THEN RetNotFound
    ELSE IF ~IsDict(Head(items)) THEN Raised("find_ticket")
    ELSE IF Matches(Head(items), tid) THEN RetFound(Head(items))
    ELSE ScanTickets(Tail(items), tid)

\* lines 116-122; iterating _TICKETS raises TypeError when it is not iterable
FindTicket(store, identifier) ==
    IF Iterable(store) THEN ScanTickets(store.items, Lower(identifier))
    ELSE Raised("find_ticket")

\* a thread calls find_ticket(identifier); lines 114-115 return None for an
\* empty identifier
CallFindTicket(t, identifier) ==
    /\ CanCall(t)
    /\ calls' = calls + 1
    /\ ticket_id_or_display' = Set(ticket_id_or_display, t, identifier)
    /\ IF identifier = <<>>
       THEN /\ ret' = Set(ret, t, RetNotFound)
            /\ UNCHANGED <<pc, stack>>
       ELSE /\ pc' = Set(pc, t, "ft_lock")
            /\ stack' = Set(stack, t, <<"top">>)
            /\ ret' = Set(ret, t, NoRet)
    /\ UNCHANGED <<globals, locks, env, reload_locals, build_locals, status, search_module>>
    /\ UNCHANGED <<query, query_top_k>>

\* line 117: with _TICKETS_LOCK
FindTicketLock(t) ==
    /\ pc[t] = "ft_lock"
    /\ tickets_lock = NoThread
    /\ tickets_lock' = t
    /\ pc' = Set(pc, t, "ft_scan")
    /\ UNCHANGED <<globals, kg_lock, env, stack, calls, reload_locals, build_locals, status,
                   ret, find_locals, search_module>>

\* lines 118-122: the scan under the lock; the with block releases the lock on
\* a return and on an exception alike
FindTicketScan(t) ==
    /\ pc[t] = "ft_scan"
    /\ tickets_lock' = NoThread
    /\ LET found == FindTicket(TICKETS, ticket_id_or_display[t])
       IN  IF found.kind = "raised"
           THEN RaiseToCaller(t, "find_ticket")
           ELSE Return(t, found)
    /\ UNCHANGED <<globals, kg_lock, env, calls, reload_locals, build_locals, status,
                   find_locals, search_module>>

\* the identifiers find_ticket is called with: empty, a ticketId, a displayId
\* in another case, the digits of an integer ticketId, an unknown identifier
Identifiers == {<<>>, Chars_1, <<"i","n","c","-","3">>, <<"4">>, <<"5">>}

FindStep(t) ==
        \/ \E identifier \in Identifiers : CallFindTicket(t, identifier)
        \/ FindTicketLock(t)
        \/ FindTicketScan(t)

(***************************************************************************)
(* search_tickets_by_text                                                  *)
(***************************************************************************)
RetHits(items) == [kind |-> "hits", items |-> items]

\* lines 140 and 142: the weights of a subject match and of a description match
SubjectScore == 10
DescriptionScore == 2

\* q in s, on strings
In(q, s) == \E i \in 1..(Len(s) - Len(q) + 1) : SubSeq(s, i, i + Len(q) - 1) = q

\* lines 136-142: the score of one record for the lowered, stripped query
ScoreOf(t, q) ==
    LET subject == Lower(Str(GetOr(t, "subject", PyStr(<<>>))))
        desc == Lower(Str(GetOr(t, "description", PyStr(<<>>))))
    IN  (IF In(q, subject) THEN SubjectScore ELSE 0)
            + (IF In(q, desc) THEN DescriptionScore ELSE 0)

\* lines 134-144: the loop; t.get raises AttributeError on a record that is not
\* a mapping
RECURSIVE ScoreTickets(_, _, _)
ScoreTickets(items, q, scores) ==
    IF items = <<>> THEN [raised |-> FALSE, scores |-> scores]
    ELSE IF ~IsDict(Head(items)) THEN [raised |-> TRUE, scores |-> <<>>]
    ELSE LET score == ScoreOf(Head(items), q)
         IN  ScoreTickets(Tail(items), q,
                          IF score > 0
                          THEN Append(scores, [score |-> score, t |-> Head(items)])
                          ELSE scores)

\* one step of the stable sort of line 145: e goes behind every entry whose key
\* -score is not greater than its own
RECURSIVE InsertByScore(_, _)
InsertByScore(sorted, e) ==
    IF sorted = <<>> THEN <<e>>
    ELSE IF -Head(sorted).score <= -e.score
         THEN <<Head(sorted)>> \o InsertByScore(Tail(sorted), e)
         ELSE <<e>> \o sorted

\* line 145: scores.sort(key=lambda x: -x[0])
RECURSIVE SortByScore(_)
SortByScore(scores) ==
    IF scores = <<>> THEN <<>>
    ELSE InsertByScore(SortByScore(SubSeq(scores, 1, Len(scores) - 1)), scores[Len(scores)])

\* a variant of line 146 that returns every scored ticket
SliceAll(scores, k) == scores

\* line 146: scores[:top_k], for top_k >= 0
Slice(scores, k) == IF Len(scores) > k THEN SubSeq(scores, 1, k) ELSE scores

\* lines 132-146; iterating _TICKETS raises TypeError when it is not iterable
SearchTicketsByText(store, text, k) ==
    IF ~Iterable(store) THEN Raised("search_tickets_by_text")
    ELSE LET scored == ScoreTickets(store.items, Lower(Strip(text)), <<>>)
         IN  IF scored.raised THEN Raised("search_tickets_by_text")
             ELSE LET top == Slice(SortByScore(scored.scores), k)
                  IN  RetHits([i \in 1..Len(top) |-> top[i].t])

\* a thread calls search_tickets_by_text(text, k); lines 130-131 return [] for
\* an empty query
CallSearchTicketsByText(t, text, k) ==
    /\ CanCall(t)
    /\ calls' = calls + 1
    /\ query' = Set(query, t, text)
    /\ query_top_k' = Set(query_top_k, t, k)
    /\ IF text = <<>>
       THEN /\ ret' = Set(ret, t, RetHits(<<>>))
            /\ UNCHANGED <<pc, stack>>
       ELSE /\ pc' = Set(pc, t, "st_lock")
            /\ stack' = Set(stack, t, <<"top">>)
            /\ ret' = Set(ret, t, NoRet)
    /\ UNCHANGED <<globals, locks, env, reload_locals, build_locals, status, search_module>>
    /\ UNCHANGED ticket_id_or_display

\* line 133: with _TICKETS_LOCK
SearchTicketsByTextLock(t) ==
    /\ pc[t] = "st_lock"
    /\ tickets_lock = NoThread
    /\ tickets_lock' = t
    /\ pc' = Set(pc, t, "st_scan")
    /\ UNCHANGED <<globals, kg_lock, env, stack, calls, reload_locals, build_locals, status,
                   ret, find_locals, search_module>>

\* lines 134-146: scoring, sort and slice under the lock; the with block
\* releases the lock on a return and on an exception alike
SearchTicketsByTextScan(t) ==
    /\ pc[t] = "st_scan"
    /\ tickets_lock' = NoThread
    /\ LET hits == SearchTicketsByText(TICKETS, query[t], query_top_k[t])
       IN  IF hits.kind = "raised"
           THEN RaiseToCaller(t, "search_tickets_by_text")
           ELSE Return(t, hits)
    /\ UNCHANGED <<globals, kg_lock, env, calls, reload_locals, build_locals, status,
                   find_locals, search_module>>

\* tickets with subjects and descriptions:
\* {"ticketId": "21", "subject": "VPN client fails", "description": "Printer"}
X_Subject21 ==
    PyDict([ticketId |-> PyStr(<<"2", "1">>), subject |-> PyStr(S_VpnFailsUpper),
            description |-> PyStr(S_Printer)])
\* {"ticketId": "22", "subject": "Printer", "description": "vpn client is down"}
X_Description22 ==
    PyDict([ticketId |-> PyStr(<<"2", "2">>), subject |-> PyStr(S_Printer),
            description |-> PyStr(S_VpnIsDown)])
\* {"ticketId": "23", "subject": "VPN", "description": "VPN client fails"}
X_Both23 ==
    PyDict([ticketId |-> PyStr(<<"2", "3">>), subject |-> PyStr(S_Vpn),
            description |-> PyStr(S_VpnFailsUpper)])
\* {"ticketId": "24", "subject": "vpn client login error"}
X_Subject24 ==
    PyDict([ticketId |-> PyStr(<<"2", "4">>), subject |-> PyStr(S_VpnLoginError)])
\* {"ticketId": 25, "subject": null, "description": 4}
X_NoText25 ==
    PyDict([ticketId |-> PyInt(<<"2", "5">>), subject |-> PyNone,
            description |-> PyInt(<<"4">>)])

DS_Text == PyList(<<X_Subject21, X_Description22, X_Both23, X_Subject24, X_NoText25>>)
DS_NotDict == PyList(<<X_Subject21, T_NotDict>>)
TextDocs == {JsonNumber, EmptyList, DS_Text, DS_NotDict}

\* the queries search_tickets_by_text is called with: empty, blank, a word in
\* another case and padded, a word of one description, an unknown word
Q_Empty == <<>>
Q_Spaces == <<" ", " ">>
Q_Padded == <<" ", "v", "P", "n", " ">>
Q_Down == <<"d", "o", "w", "n">>
Q_Unknown == <<"x">>
TextQueries == {Q_Empty, Q_Spaces, Q_Padded, Q_Down, Q_Unknown}
TextTopKs == {0, 1, 3}

SearchTicketsByTextStep(t) ==
        \/ \E text \in TextQueries, k \in TextTopKs : CallSearchTicketsByText(t, text, k)
        \/ SearchTicketsByTextLock(t)
        \/ SearchTicketsByTextScan(t)

Step(t, docs) ==
        \/ CallReload(t)
        \/ CallRefresh(t)
        \/ CallGetTickets(t)
        \/ CallGetKg(t)
        \/ ReloadFetch(t, docs)
        \/ ReloadLocal(t)
        \/ ReloadSetTickets(t)
        \/ ReloadSetMeta(t)
        \/ ReloadReturn(t)
        \/ GetTicketsLock(t)
        \/ GetTicketsCopy(t)
        \/ BuildLock(t)
        \/ BuildCompute(t)
        \/ BuildSetNodes(t)
        \/ BuildSetEdges(t)
        \/ GetKgLock(t)
        \/ GetKgCopy(t)
        \/ RefreshReturn(t)
        \/ ImportDone(t)

\* threads racing over well-formed documents
Init == InitWith({FileMissing} \cup {FileJson(b) : b \in ConcurrentDocs})
Next == \E t \in Threads : Step(t, ConcurrentDocs)
Spec == Init /\ [][Next]_vars

\* The builder over every ticket list of the pool: the importing thread has
\* loaded the list from the local file (S3 not configured) and is at line 375
InitBuild ==
    \E l \in TicketLists :
        /\ FindInit
        /\ SearchInit({FALSE})
        /\ TICKETS = PyList(l)
        /\ LAST_UPDATED = Time(0)
        /\ LAST_SOURCE = (IF l # <<>> THEN SRC_LOCAL ELSE SRC_NONE)
        /\ KG_NODES = <<>>
        /\ KG_EDGES = <<>>
        /\ KG_LAST_BUILT = NoTime
        /\ tickets_lock = NoThread
        /\ kg_lock = NoThread
        /\ s3_enabled = FALSE
        /\ local_file = FileJson(PyList(l))
        /\ imported = FALSE
        /\ pc = [t \in Threads |-> IF t = Importer THEN "b_lock" ELSE "idle"]
        /\ stack = [t \in Threads |-> IF t = Importer THEN <<"i_done">> ELSE <<>>]
        /\ calls = 0
        /\ kb = [t \in Threads |-> PyNone]
        /\ fetched_from = [t \in Threads |-> SRC_NONE]
        /\ s3_result = [t \in Threads |-> NotFetched]
        /\ local_result = [t \in Threads |-> NotRead]
        /\ tickets = [t \in Threads |-> <<>>]
        /\ built = [t \in Threads |-> EmptyGraph]
        /\ status = [t \in Threads |-> NoRet]
        /\ ret = [t \in Threads |->
                    IF t = Importer
                    THEN RetStatus(Len(l), IF l # <<>> THEN SRC_LOCAL ELSE SRC_NONE, Time(0))
                    ELSE NoRet]

NextBuild ==
    \/ BuildLock(Importer)
    \/ GetTicketsLock(Importer)
    \/ GetTicketsCopy(Importer)
    \/ BuildCompute(Importer)
    \/ BuildSetNodes(Importer)
    \/ BuildSetEdges(Importer)
    \/ ImportDone(Importer)
    \/ CallGetKg(Importer)
    \/ GetKgLock(Importer)
    \/ GetKgCopy(Importer)

SpecBuild == InitBuild /\ [][NextBuild]_vars

\* one thread alone, over every document
InitReload == InitWith(Files(Blobs))
NextReload == Step(Importer, Blobs) \/ FindStep(Importer)
SpecReload == InitReload /\ [][NextReload]_vars

\* one thread alone, searching the store read from the local file (S3 is not
\* configured)
InitText == InitWith({FileJson(b) : b \in TextDocs}) /\ ~s3_enabled
NextText == Step(Importer, TextDocs) \/ SearchTicketsByTextStep(Importer)
SpecText == InitText /\ [][NextText]_vars

\* Threads racing while the store is the one read from the local file (S3 is
\* not configured): a number, on which get_tickets raises inside both locks, a
\* list on which the builder raises inside _KG_LOCK, or a well-formed list.
LockDocs == {JsonNumber, DS_Malformed, DS_Vpn}
InitLocks == InitWith({FileJson(b) : b \in LockDocs}) /\ ~s3_enabled
NextLocks == \E t \in Threads : Step(t, LockDocs)

\* a step of a thread that is not inside the builder
StepOutsideBuilder == \E t \in Threads : pc[t] # "b_build" /\ Step(t, LockDocs)

\* Scheduling: the builder is a terminating computation, so a thread at line 367
\* leaves it, and while some other step is possible one is eventually taken.
SpecLocks ==
    /\ InitLocks /\ [][NextLocks]_vars
    /\ WF_vars(StepOutsideBuilder)
    /\ \A t \in Threads : []<>(pc[t] # "b_build")

(***************************************************************************)
(* backend/index.py: get_bedrock_embedding and search_tickets.             *)
(*                                                                         *)
(* One thread calls search_tickets. The embedding collaborator answers     *)
(* each invoke_model with a vector, a ClientError or another failure; the  *)
(* index answers each search with a list of well-formed hits or a failure. *)
(* BEDROCK_EMBEDDING_MODEL is configured, and boto3.client (line 188),     *)
(* which makes no request, succeeds.                                       *)
(***************************************************************************)
EMBEDDING_MAX_CHARS == 2000
RetryAttempts == 3
Backoff == 1

MaxSearches == 2

\* what one invoke_model call can do (lines 198-244)
Embedded(vec) == [kind |-> "vector", vec |-> vec, code |-> <<>>]
ClientError(code) == [kind |-> "client_error", vec |-> <<>>, code |-> code]
ConnectionError == [kind |-> "connection_error", vec |-> <<>>, code |-> <<>>]
NoEmbedding == [kind |-> "no_embedding", vec |-> <<>>, code |-> <<>>]

S_ValidationException ==
    <<"V","a","l","i","d","a","t","i","o","n","E","x","c","e","p","t","i","o","n">>
S_ThrottlingException ==
    <<"T","h","r","o","t","t","l","i","n","g","E","x","c","e","p","t","i","o","n">>
S_Validation == <<"v","a","l","i","d","a","t","i","o","n">>

\* the vectors the collaborator returns: an empty one, and one with components
Vectors == {<<>>, <<1, 2>>}

EmbedOutcomes ==
    {Embedded(v) : v \in Vectors}
        \cup {ClientError(S_ValidationException), ClientError(S_ThrottlingException),
              ConnectionError, NoEmbedding}

\* s.startswith(p)
StartsWith(s, p) == Len(s) >= Len(p) /\ SubSeq(s, 1, Len(p)) = p

\* a variant of line 234 that takes no error code for a validation error
NoCodeIsValidation(code) == FALSE

\* line 234: code.lower().startswith("validation")
IsValidation(code) == StartsWith(Lower(code), S_Validation)

\* how the outcome of an attempt is written in the record of calls
OutcomeName(o) ==
    CASE o.kind = "vector" -> "vector"
      [] o = ClientError(S_ValidationException) -> "validation_error"
      [] OTHER -> "failure"

\* what one index query can do: raise, or return hits (at most size of them)
Hit(score, source) == [score |-> score, source |-> source]
AllHits == <<Hit(2, T_Vpn3), Hit(1, T_Vpn6)>>
IndexFailed == [ok |-> FALSE, hits |-> <<>>]
IndexHits(hits) == [ok |-> TRUE, hits |-> hits]
IndexOutcomes(size) ==
    {IndexFailed} \cup {IndexHits(SubSeq(AllHits, 1, n)) : n \in 0..(IF size < Len(AllHits) THEN size ELSE Len(AllHits))}

\* lines 344-363: _format_hit
FormatHit(h) ==
    [score |-> h.score, ticketId |-> Get(h.source, "ticketId"),
     displayId |-> Get(h.source, "displayId"), subject |-> Get(h.source, "subject")]
FormatHits(hits) == [i \in 1..Len(hits) |-> FormatHit(hits[i])]

\* {"results": results}
Response(list) == [kind |-> "results", results |-> list]

\* one entry of the record of collaborator calls
Call(op, n, outcome) == [op |-> op, n |-> n, outcome |-> outcome]
QueryOutcome(o) == IF ~o.ok THEN "failed" ELSE IF o.hits = <<>> THEN "empty" ELSE "hits"

\* the queries and sizes search_tickets is called with
Q_Vpn == <<"v","p","n">>
Q_VpnPadded == <<" ","v","p","n"," ">>
Q_Blank == <<" ">>
SearchQueries == {Q_Vpn, Q_VpnPadded, Q_Blank}
TopKs == {1, 2}

\* a variant of line 335 that keys the cache by the query as it was passed
SearchKeyUnstripped(q, k, flag) == <<q, k, flag>>

\* line 335: key = (query_text.strip(), int(top_k), bool(USE_VECTOR_SEARCH_FLAG))
SearchKey(q, k, flag) == <<Strip(q), k, flag>>

\* line 180: the embedding cache key (the model id is fixed)
EmbeddingKey(text) == Prefix(text, EMBEDDING_MAX_CHARS)

\* cache[key] = value
Put(cache, key, value) == (key :> value) @@ cache

\* a variant of line 366 that takes the vector path whatever the flag says
VectorStagesAlways(flag) == TRUE

\* line 366: if USE_VECTOR_SEARCH_FLAG and BEDROCK_EMBEDDING_MODEL
VectorStagesEnabled(flag) == flag

\* a variant of line 391 that never returns the kNN hits
KnnNeverReturns(hits) == FALSE

\* line 391: if hits
KnnReturns(hits) == hits # <<>>

\* line 495: if results
HybridReturns(list) == list # <<>>

\* a variant of line 246 that sleeps after every failed attempt
SleepsAlways(n) == TRUE

\* line 246: if attempt < retry_attempts
SleepsAfter(n) == n < RetryAttempts

kb_store_module ==
    <<globals, locks, env, control, reload_locals, build_locals, status, ret, find_locals>>

\* search_tickets is called: lines 335-339
CallSearchTickets(q, k) ==
    /\ at = "idle"
    /\ searches < MaxSearches
    /\ searches' = searches + 1
    /\ query_text' = q
    /\ top_k' = k
    /\ issued' = <<>>
    /\ emb' = PyNone
    /\ LET key == SearchKey(q, k, USE_VECTOR_SEARCH_FLAG)
       IN  IF key \in DOMAIN SEARCH_CACHE
           THEN /\ response' = SEARCH_CACHE[key]
                /\ from_cache' = TRUE
                /\ UNCHANGED at
           ELSE /\ response' = NoResponse
                /\ from_cache' = FALSE
                /\ at' = IF VectorStagesEnabled(USE_VECTOR_SEARCH_FLAG)
                         THEN "e_enter" ELSE "s_lexical"
    /\ UNCHANGED <<USE_VECTOR_SEARCH_FLAG, search_caches, results, attempt, kb_store_module>>

\* get_bedrock_embedding has its value: lines 373 and 502
AfterEmbedding(value) ==
    /\ emb' = value
    /\ attempt' = 0
    /\ at' = IF Truthy(value) THEN "s_knn" ELSE "s_lexical"

\* lines 176-183 of get_bedrock_embedding, called at line 369
EmbeddingEnter ==
    /\ at = "e_enter"
    /\ LET text == Strip(query_text)
       IN  IF text = <<>>
           THEN AfterEmbedding(PyNone)
           ELSE IF EmbeddingKey(text) \in DOMAIN embedding_cache
                THEN AfterEmbedding(embedding_cache[EmbeddingKey(text)])
                ELSE /\ attempt' = 1
                     /\ at' = "e_invoke"
                     /\ UNCHANGED emb
    /\ UNCHANGED <<USE_VECTOR_SEARCH_FLAG, search_caches, query_text, top_k, results, issued,
                   from_cache, searches, response, kb_store_module>>

\* lines 196 and 250-252: the next turn of the loop, or its end
NextAttempt ==
    IF attempt < RetryAttempts
    THEN /\ attempt' = attempt + 1
         /\ at' = "e_invoke"
         /\ UNCHANGED <<embedding_cache, emb>>
    ELSE /\ embedding_cache' = Put(embedding_cache, EmbeddingKey(Strip(query_text)), PyNone)
         /\ AfterEmbedding(PyNone)

\* lines 197-246: one attempt
EmbeddingInvoke ==
    /\ at = "e_invoke"
    /\ \E o \in EmbedOutcomes :
          /\ issued' = Append(issued, Call("invoke_model", attempt, OutcomeName(o)))
          /\ IF o.kind = "vector"
             THEN /\ embedding_cache' =
                        Put(embedding_cache, EmbeddingKey(Strip(query_text)), PyList(o.vec))
                  /\ AfterEmbedding(PyList(o.vec))
             ELSE IF o.kind = "client_error" /\ IsValidation(o.code)
                  THEN /\ embedding_cache' =
                             Put(embedding_cache, EmbeddingKey(Strip(query_text)), PyNone)
                       /\ AfterEmbedding(PyNone)
                  ELSE IF SleepsAfter(attempt)
                       THEN /\ at' = "e_sleep"
                            /\ UNCHANGED <<embedding_cache, emb, attempt>>
                       ELSE NextAttempt
    /\ UNCHANGED <<USE_VECTOR_SEARCH_FLAG, SEARCH_CACHE, query_text, top_k, results,
                   from_cache, searches, response, kb_store_module>>

\* lines 247-248: time.sleep(backoff * 2 ** (attempt - 1))
EmbeddingSleep ==
    /\ at = "e_sleep"
    /\ issued' = Append(issued, Call("sleep", Backoff * 2 ^ (attempt - 1), "slept"))
    /\ NextAttempt
    /\ UNCHANGED <<USE_VECTOR_SEARCH_FLAG, SEARCH_CACHE, query_text, top_k, results,
                   from_cache, searches, response, kb_store_module>>

\* _SEARCH_CACHE[key] = {"results": results}; return {"results": results}
Finish(list) ==
    /\ SEARCH_CACHE' =
          Put(SEARCH_CACHE, SearchKey(query_text, top_k, USE_VECTOR_SEARCH_FLAG), Response(list))
    /\ response' = Response(list)
    /\ at' = "idle"
    /\ results' = <<>>
    /\ attempt' = 0
    /\ UNCHANGED emb

\* lines 375-399: the kNN query
SearchKnn ==
    /\ at = "s_knn"
    /\ \E o \in IndexOutcomes(top_k) :
          /\ issued' = Append(issued, Call("knn", top_k, QueryOutcome(o)))
          /\ IF o.ok /\ KnnReturns(o.hits)
             THEN Finish(results \o FormatHits(o.hits))
             ELSE /\ at' = "s_hybrid"
                  /\ UNCHANGED <<SEARCH_CACHE, response, emb, results, attempt>>
    /\ UNCHANGED <<USE_VECTOR_SEARCH_FLAG, embedding_cache, query_text, top_k,
                   from_cache, searches, kb_store_module>>

\* lines 401-500: the hybrid function-score query
SearchHybrid ==
    /\ at = "s_hybrid"
    /\ \E o \in IndexOutcomes(top_k) :
          /\ issued' = Append(issued, Call("hybrid", top_k, QueryOutcome(o)))
          /\ IF o.ok /\ HybridReturns(results \o FormatHits(o.hits))
             THEN Finish(results \o FormatHits(o.hits))
             ELSE /\ at' = "s_lexical"
                  /\ UNCHANGED <<SEARCH_CACHE, response, emb, results, attempt>>
    /\ UNCHANGED <<USE_VECTOR_SEARCH_FLAG, embedding_cache, query_text, top_k,
                   from_cache, searches, kb_store_module>>

\* lines 502-543: the lexical query, and the return
SearchLexical ==
    /\ at = "s_lexical"
    /\ \E o \in IndexOutcomes(top_k) :
          /\ issued' = Append(issued, Call("lexical", top_k, QueryOutcome(o)))
          /\ Finish(IF o.ok THEN results \o FormatHits(o.hits) ELSE results)
    /\ UNCHANGED <<USE_VECTOR_SEARCH_FLAG, embedding_cache, query_text, top_k,
                   from_cache, searches, kb_store_module>>

\* the steps of a search that has started
SearchRun ==
    \/ EmbeddingEnter
    \/ EmbeddingInvoke
    \/ EmbeddingSleep
    \/ SearchKnn
    \/ SearchHybrid
    \/ SearchLexical

\* kb_store is not loaded; the vector flag is either way
InitSearch ==
    /\ KbStoreInit({FileMissing})
    /\ s3_enabled = FALSE
    /\ FindInit
    /\ SearchInit(BOOLEAN)

NextSearch ==
    \/ \E q \in SearchQueries, k \in TopKs : CallSearchTickets(q, k)
    \/ SearchRun

SpecSearch == InitSearch /\ [][NextSearch]_vars

\* a search that has started keeps running: the thread executing it is not stopped
SpecSearchLive == SpecSearch /\ WF_vars(SearchRun)

(***************************************************************************)
(* Properties of reload (checked under SpecReload)                         *)
(***************************************************************************)
\* the snapshot C1 prescribes, a JSON null counting as no data: the S3
\* document, else the document of the local file, else the empty collection
ExpectedSnapshot(s3, local) ==
    IF s3.o = "ok" /\ s3.doc # PyNone THEN s3.doc
    ELSE IF local.o = "read" /\ local.file.state = "json" /\ local.file.doc # PyNone
         THEN local.file.doc
         ELSE EmptyList

\* C1: reload never raises to its caller; the snapshot it installs is the S3
\* data when the fetch succeeds, else the readable local file's contents, else
\* the empty collection; and the status it returns reports the outcome.
C1_ReloadAbsorbsFailures ==
    \A t \in Threads :
        /\ ret[t] # Raised("reload_kb_from_s3_or_local")
        /\ pc[t] = "r_meta" => TICKETS = ExpectedSnapshot(s3_result[t], local_result[t])
        /\ ret[t].kind = "status" =>
               /\ ret[t].count = PyLen(TICKETS)
               /\ ret[t].source = LAST_SOURCE
               /\ ret[t].last_updated = LAST_UPDATED

Installable == {EmptyList} \cup ConcurrentDocs

\* the graph of each of them
BuiltOf == [d \in Installable |-> BuildKgFromTickets(d.items)]

\* nodes and edges are those of one completed build
IsCompleteGraph(nodes, edges) ==
    \E d \in Installable : nodes = BuiltOf[d].nodes /\ edges = BuiltOf[d].edges

C4_LastWriterWins ==
    (imported /\ \A t \in Threads : pc[t] = "idle") =>
        /\ KG_NODES = BuiltOf[TICKETS].nodes
        /\ KG_EDGES = BuiltOf[TICKETS].edges

\* a reload and a refresh that overlapped (each returned the timestamp taken
\* after both had started) have both completed, over a non-empty snapshot
C4_RacedCallsCompleted ==
    /\ imported
    /\ \A t \in Threads : pc[t] = "idle"
    /\ \E t, u \in Threads :
           /\ ret[t].kind = "status"
           /\ ret[u].kind = "refresh"
           /\ ret[t].last_updated = Time(MaxCalls)
           /\ ret[u].last_updated = Time(MaxCalls)
           /\ ret[t].source # ret[u].source
    /\ KG_NODES # <<>>

\* C5: the list get_tickets returns is the complete collection installed by
\* one reload, and once returned it is not changed by what other threads do.
C5_ConsistentSnapshot ==
    /\ [](\A t \in Threads : ret[t].kind = "tickets" => PyList(ret[t].items) \in Installable)
    /\ [][\A t \in Threads :
              (ret[t].kind = "tickets" /\ pc[t] = "idle" /\ pc'[t] = "idle")
                  => ret'[t] = ret[t]]_vars

\* a returned non-empty list differs from the collection that a later reload
\* of another thread is installing
C5_ReturnedListOutlivesReload ==
    \E t, u \in Threads :
        /\ pc[t] = "idle"
        /\ ret[t].kind = "tickets"
        /\ ret[t].items # <<>>
        /\ pc[u] = "r_meta"
        /\ TICKETS.items # ret[t].items

(***************************************************************************)
(* Properties of the builder (checked under SpecBuild)                     *)
(***************************************************************************)
\* thread t has a graph that _build_kg_from_tickets returned for tickets[t]
HasBuilt(t) == pc[t] \in {"b_nodes", "b_edges"}

DistinctIds(nodes) == \A i, j \in 1..Len(nodes) : nodes[i].id = nodes[j].id => i = j

SimilarTo(edges) == {i \in 1..Len(edges) : edges[i].type = "similar_to"}

\* C6: the nodes of one build have pairwise distinct ids, in the builder's
\* result, in the cache it is stored in and in every copy get_kg returns,
\* also when tickets share an identifier or name the same related entity.
C6_NodeIdsDistinct ==
    /\ DistinctIds(KG_NODES)
    /\ \A t \in Threads :
           /\ DistinctIds(built[t].nodes)
           /\ ret[t].kind = "kg" => DistinctIds(ret[t].nodes)

\* a finished build of two different tickets that share an identifier and of
\* which at least one names a related entity
C6_SharedKeyBuilt ==
    \E t \in Threads :
        /\ HasBuilt(t)
        /\ Len(built[t].nodes) >= 2
        /\ \E i, j \in 1..Len(tickets[t]) :
               /\ i < j
               /\ tickets[t][i] # tickets[t][j]
               /\ Truthy(TidRaw(tickets[t][i]))
               /\ Truthy(TidRaw(tickets[t][j]))
               /\ TicketNodeId(tickets[t][i]) = TicketNodeId(tickets[t][j])

\* the tickets of l whose explicit similarity list names a ticket of l
ExplicitlyLinked(l) ==
    {i \in 1..Len(l) : ExplicitSimilarPass(IdMap(l), EmptyGraph, l[i]).edges # <<>>}

\* the pairs i < j of subjects whose overlap is at least 6/10 of the larger
\* token set, and that the builder links from node a to node b or back
PairsLinking(subj, a, b) ==
    {p \in (1..Len(subj)) \X (1..Len(subj)) :
        /\ p[1] < p[2]
        /\ subj[p[1]].tokens # {}
        /\ subj[p[2]].tokens # {}
        /\ 5 * Cardinality(subj[p[1]].tokens \cap subj[p[2]].tokens)
             >= 3 * Max(Cardinality(subj[p[1]].tokens), Cardinality(subj[p[2]].tokens))
        /\ MakeId(P_TICKET, subj[p[1]].id) = a
        /\ MakeId(P_TICKET, subj[p[2]].id) = b}

HasReverse(edges, i) ==
    \E j \in SimilarTo(edges) :
        /\ edges[j].source = edges[i].target
        /\ edges[j].target = edges[i].source
        /\ edges[j].weight = edges[i].weight

\* C9: in every built graph (the builder's result and the cached edges) each
\* similar_to edge A -> B of weight w has a similar_to edge B -> A of weight w.
C9_SimilarSymmetric ==
    /\ \A i \in SimilarTo(KG_EDGES) : HasReverse(KG_EDGES, i)
    /\ \A t \in Threads :
           HasBuilt(t) => \A i \in SimilarTo(built[t].edges) : HasReverse(built[t].edges, i)

\* a finished build with a similar_to edge between two different nodes that
\* the subject-overlap pass weighted below 1
C9_WeightedPairBuilt ==
    \E t \in Threads :
        /\ HasBuilt(t)
        /\ \E i \in SimilarTo(built[t].edges) :
               /\ built[t].edges[i].weight # DefaultWeight
               /\ built[t].edges[i].source # built[t].edges[i].target

\* a ticket (a mapping) without the key "subject"
MissingSubject(t) == IsDict(t) /\ "subject" \notin DOMAIN t.d

\* C10: for a ticket list in which every ticket is missing subject, the
\* build does not raise and its result has no similar_to edge.
C10_MissingSubjects ==
    \A t \in Threads :
        (\A i \in 1..Len(tickets[t]) : MissingSubject(tickets[t][i])) =>
            /\ ~built[t].raised
            /\ SimilarTo(built[t].edges) = {}

\* C11: the builder never raises, whatever the shape of the tickets: every
\* build, also of a list holding a ticket with a numeric subcategory or a
\* record that is not a mapping, returns a graph.
C11_BuilderNeverRaises ==
    \A t \in Threads : ~built[t].raised

(***************************************************************************)
(* Step extraction, read off the step edges of a built graph               *)
(***************************************************************************)
\* the texts of the Step nodes that the step edges of ticket node tid point
\* to, in edge order: what _extract_steps_from_ticket returned for the ticket
StepTexts(g, tid) ==
    LET es == SelectSeq(g.edges, LAMBDA e : e.type = "step" /\ e.source = tid)
    IN  [k \in 1..Len(es) |->
            (CHOOSE n \in {g.nodes[i] : i \in 1..Len(g.nodes)} : n.id = es[k].target).meta.step]

\* the string an entry of a worklog-like list contributes, if any
ClaimedEntry(e) ==
    IF ~IsDict(e) THEN <<Str(e)>>
    ELSE IF Truthy(Get(e, "text")) THEN <<Str(Get(e, "text"))>>
    ELSE IF Truthy(Get(e, "note")) THEN <<Str(Get(e, "note"))>>
    ELSE IF Truthy(Get(e, "description")) THEN <<Str(Get(e, "description"))>>
    ELSE <<>>

\* the strings of a list-valued field, entry by entry
ClaimedList(t, key) ==
    IF IsList(Get(t, key))
    THEN FoldSeq(LAMBDA acc, e : acc \o ClaimedEntry(e), <<>>, Get(t, key).items)
    ELSE <<>>

\* the strings C12 names, in the order it names them, each trimmed
ClaimedSources(t) ==
    LET raw == ClaimedList(t, "resolutionSteps") \o ClaimedList(t, "worklog")
               \o ClaimedList(t, "work_log") \o ClaimedList(t, "work_logs")
               \o ClaimedList(t, "logs")
               \o (IF IsStr(Get(t, "resolution")) THEN <<Get(t, "resolution").s>> ELSE <<>>)
    IN  [k \in 1..Len(raw) |-> Strip(raw[k])]

FirstAt(seq, x) == CHOOSE k \in 1..Len(seq) : seq[k] = x /\ \A m \in 1..(k - 1) : seq[m] # x

\* steps is src without its empty strings and its repetitions, in src's order
IsOrderedDedupe(steps, src) ==
    /\ \A i \in 1..Len(steps) : steps[i] # <<>>
    /\ \A i, j \in 1..Len(steps) : steps[i] = steps[j] => i = j
    /\ {steps[i] : i \in 1..Len(steps)} = {src[k] : k \in 1..Len(src)} \ {<<>>}
    /\ \A i, j \in 1..Len(steps) : i < j => FirstAt(src, steps[i]) < FirstAt(src, steps[j])

\* the tickets of l that have an identifier no other ticket of l has
SoleOwners(l) ==
    {i \in 1..Len(l) :
        /\ Truthy(TidRaw(l[i]))
        /\ \A j \in 1..Len(l) :
               (j # i /\ Truthy(TidRaw(l[j]))) => TicketNodeId(l[j]) # TicketNodeId(l[i])}

\* C12: the steps extracted from a ticket are the trimmed strings of
\* resolutionSteps, then of worklog, work_log, work_logs and logs (plain
\* strings, or the text/note/description of an object), then of a string
\* resolution, in that order, without empty strings and with each distinct
\* string once at its first occurrence.
C12_StepsOrderedDedupe ==
    \A t \in Threads :
        HasBuilt(t) =>
            \A i \in SoleOwners(tickets[t]) :
                IsOrderedDedupe(StepTexts(built[t], TicketNodeId(tickets[t][i])),
                                ClaimedSources(tickets[t][i]))

\* a built ticket whose sources repeat a text (after trimming) across
\* resolutionSteps, a worklog-like list and resolution, and hold a blank string
C12_RepeatedStepBuilt ==
    \E t \in Threads :
        /\ HasBuilt(t)
        /\ \E i \in SoleOwners(tickets[t]) :
               LET src == ClaimedSources(tickets[t][i])
                   steps == StepTexts(built[t], TicketNodeId(tickets[t][i]))
               IN  /\ Len(steps) = 3
                   /\ Len(src) = 6
                   /\ \E k \in 1..Len(src) : src[k] = <<>>
                   /\ IsList(Get(tickets[t][i], "resolutionSteps"))
                   /\ IsList(Get(tickets[t][i], "logs"))

(***************************************************************************)
(* The two printer tickets                                                 *)
(***************************************************************************)
NodesOfType(g, type) == {i \in 1..Len(g.nodes) : g.nodes[i].type = type}

EdgesFrom(g, src, tgt, rel) ==
    {i \in 1..Len(g.edges) :
        g.edges[i].source = src /\ g.edges[i].target = tgt /\ g.edges[i].type = rel}

\* what both versions of C13 say apart from the number of Step nodes: two
\* Ticket nodes, "Clear paper tray" one Step node that a step edge of each
\* ticket points to, and a similar_to edge in each direction
PrinterScenario(g) ==
    LET t1 == TicketNodeId(T_Printer1)
        t2 == TicketNodeId(T_Printer2)
        shared == {i \in NodesOfType(g, "Step") : g.nodes[i].label = S_ClearPaperTray}
    IN  /\ Cardinality(NodesOfType(g, "Ticket")) = 2
        /\ Cardinality(shared) = 1
        /\ \A i \in shared :
               /\ EdgesFrom(g, t1, g.nodes[i].id, "step") # {}
               /\ EdgesFrom(g, t2, g.nodes[i].id, "step") # {}
        /\ EdgesFrom(g, t1, t2, "similar_to") # {}
        /\ EdgesFrom(g, t2, t1, "similar_to") # {}

\* C13 as stated: the build of the two printer tickets has 2 Ticket nodes and
\* 3 Step nodes, "Clear paper tray" being one shared Step node, and a
\* similar_to edge in each direction between the two tickets.
C13_ThreeStepNodes ==
    \A t \in Threads :
        (HasBuilt(t) /\ tickets[t] = <<T_Printer1, T_Printer2>>) =>
            /\ PrinterScenario(built[t])
            /\ Cardinality(NodesOfType(built[t], "Step")) = 3

\* C13 as the code has it: 2 Ticket nodes and 2 Step nodes (one per distinct
\* step text) reached by 3 step edges, "Clear paper tray" being the one Step
\* node both tickets point to, and a similar_to edge in each direction.
C13_TwoStepNodes ==
    \A t \in Threads :
        (HasBuilt(t) /\ tickets[t] = <<T_Printer1, T_Printer2>>) =>
            /\ PrinterScenario(built[t])
            /\ Cardinality(NodesOfType(built[t], "Step")) = 2
            /\ Cardinality({i \in 1..Len(built[t].edges) :
                               built[t].edges[i].type = "step"}) = 3

\* the two printer tickets have been built
C13_PrinterTicketsBuilt ==
    \E t \in Threads :
        /\ HasBuilt(t)
        /\ tickets[t] = <<T_Printer1, T_Printer2>>
        /\ built[t].nodes # <<>>

(***************************************************************************)
(* Technicians                                                             *)
(***************************************************************************)
\* the technician field of a ticket, the value that keys its node (the bare
\* value, or the userId/id of an object) and the label C14 gives the node (the
\* bare value, or the name of an object, else its id)
TechOf(t) == Or(Or(Get(t, "technician"), Get(t, "resolver")), Get(t, "assignedTo"))
TechKeyOf(t) ==
    IF IsDict(TechOf(t)) THEN Or(Get(TechOf(t), "userId"), Get(TechOf(t), "id")) ELSE TechOf(t)
TechLabelOf(t) ==
    IF ~IsDict(TechOf(t)) THEN Str(TechOf(t))
    ELSE IF Truthy(Or(Get(TechOf(t), "name"), Get(TechOf(t), "displayName")))
         THEN Str(Or(Get(TechOf(t), "name"), Get(TechOf(t), "displayName")))
         ELSE Str(TechKeyOf(t))

\* the tickets of l that have an identifier and a technician key
WithTechnician(l) == {i \in 1..Len(l) : Truthy(TidRaw(l[i])) /\ Truthy(TechKeyOf(l[i]))}

\* g has the Technician node of ticket t with the given label, and a resolved
\* edge from it to the ticket's node
HasTechnician(g, t, label) ==
    LET nid == MakeId(P_TECHNICIAN, Str(TechKeyOf(t)))
    IN  /\ \E i \in NodesOfType(g, "Technician") :
               g.nodes[i].id = nid /\ g.nodes[i].label = label
        /\ EdgesFrom(g, nid, TicketNodeId(t), "resolved") # {}

\* C14 as stated: every ticket with an identifier and a technician has its
\* Technician node, labelled by the ticket's own bare value or object name
\* (else id), and a resolved edge from that node to the ticket's node.
C14_TechnicianOwnLabel ==
    \A t \in Threads :
        HasBuilt(t) =>
            \A i \in WithTechnician(tickets[t]) :
                HasTechnician(built[t], tickets[t][i], TechLabelOf(tickets[t][i]))

\* C14 as the code has it: the node and the resolved edge exist for every
\* such ticket, and the node carries the label of the first ticket of the
\* list that names this technician key (the ticket's own bare value or object
\* name when no earlier ticket names the key).
C14_TechnicianFirstLabel ==
    \A t \in Threads :
        HasBuilt(t) =>
            \A i \in WithTechnician(tickets[t]) :
                LET same == {j \in WithTechnician(tickets[t]) :
                                Strip(Str(TechKeyOf(tickets[t][j])))
                                    = Strip(Str(TechKeyOf(tickets[t][i])))}
                    first == CHOOSE j \in same : \A k \in same : j <= k
                IN  HasTechnician(built[t], tickets[t][i], TechLabelOf(tickets[t][first]))

\* a built list in which a ticket with a bare technician comes after a ticket
\* whose object technician has the same key and another label
C14_BareAfterObjectBuilt ==
    \E t \in Threads :
        /\ HasBuilt(t)
        /\ \E i, j \in WithTechnician(tickets[t]) :
               /\ i < j
               /\ IsDict(TechOf(tickets[t][i]))
               /\ ~IsDict(TechOf(tickets[t][j]))
               /\ TechKeyOf(tickets[t][i]) = TechKeyOf(tickets[t][j])
               /\ TechLabelOf(tickets[t][i]) # TechLabelOf(tickets[t][j])

(***************************************************************************)
(* Lookup by identifier, checked under SpecReload                          *)
(***************************************************************************)
\* the records of the store, when it is a list; no record otherwise
StoredRecords == IF Iterable(TICKETS) THEN TICKETS.items ELSE <<>>

\* the record carries the identifier as its ticketId or displayId, ignoring case
CarriesIdentifier(record, identifier) ==
    /\ IsDict(record)
    /\ \E key \in {"ticketId", "displayId"} \cap DOMAIN record.d :
          Lower(Str(record.d[key])) = Lower(identifier)

MatchingPositions(identifier) ==
    {i \in 1..Len(StoredRecords) : CarriesIdentifier(StoredRecords[i], identifier)}

FirstMatch(identifier) ==
    StoredRecords[CHOOSE i \in MatchingPositions(identifier) :
                     \A j \in MatchingPositions(identifier) : i <= j]

ExpectedLookup(identifier) ==
    IF identifier = <<>> \/ MatchingPositions(identifier) = {}
    THEN RetNotFound
    ELSE RetFound(FirstMatch(identifier))

\* C20: find_ticket returns the first record of the store whose ticketId or
\* displayId equals the identifier ignoring case, returns None exactly when
\* no record matches or the identifier is empty, and never raises
C20_FindTicketFirstMatch ==
    \A t \in Threads :
        (ret[t].kind \in {"found", "notfound"} \/ ret[t] = Raised("find_ticket"))
            => ret[t] = ExpectedLookup(ticket_id_or_display[t])

\* the part of C20 that the code keeps: a lookup that returns, returns the
\* first match or None
C20_ReturnedLookups ==
    \A t \in Threads :
        ret[t].kind \in {"found", "notfound"}
            => ret[t] = ExpectedLookup(ticket_id_or_display[t])

\* a lookup by a displayId written in another case has found its ticket
C20_FoundByDisplayId ==
    \E t \in Threads : ret[t] = RetFound(T_Vpn3) /\ ticket_id_or_display[t] = <<"i","n","c","-","3">>

(***************************************************************************)
(* Properties of search (checked under SpecSearch)                         *)
(***************************************************************************)
IsIndexQuery(c) == c.op \in {"knn", "hybrid", "lexical"}
IsEmbeddingCall(c) == c.op \in {"invoke_model", "sleep"}

\* the index queries and the embedding calls of the current search, in order
IndexQueries == SelectSeq(issued, IsIndexQuery)
EmbeddingCalls == SelectSeq(issued, IsEmbeddingCall)

StageOrder == <<"knn", "hybrid", "lexical">>

\* the current search was computed, and has returned
Computed == at = "idle" /\ searches > 0 /\ ~from_cache

\* C15: with vector search enabled and an embedding obtained, the index
\* queries of a search are a prefix of kNN, hybrid, lexical; a query follows
\* another only when that one yielded no hits or failed; the search returns
\* the hits of the first stage that has any, and otherwise ends with the
\* lexical query
C15_StagesInOrder ==
    (USE_VECTOR_SEARCH_FLAG /\ ~from_cache /\ Truthy(emb)) =>
        LET q == IndexQueries
        IN  /\ Len(q) <= Len(StageOrder)
            /\ \A i \in 1..Len(q) : q[i].op = StageOrder[i]
            /\ \A i \in 1..(Len(q) - 1) : q[i].outcome # "hits"
            /\ at = "idle" =>
                  /\ q # <<>>
                  /\ q[Len(q)].outcome = "hits" \/ q[Len(q)].op = "lexical"
                  /\ (q[Len(q)].outcome = "hits") <=> (response.results # <<>>)

\* a search whose kNN query failed was answered by the hybrid query
C15_AnsweredByHybrid ==
    /\ Computed
    /\ Truthy(emb)
    /\ IndexQueries = <<Call("knn", top_k, "failed"), Call("hybrid", top_k, "hits")>>
    /\ response.results # <<>>

\* C16 as stated: with vector search disabled, every search that has
\* returned requested no embedding, issued no kNN or hybrid query, issued
\* exactly one lexical query and returned a result list
C16_ExactlyOneLexicalQuery ==
    (~USE_VECTOR_SEARCH_FLAG /\ at = "idle" /\ searches > 0) =>
        /\ Len(issued) = 1
        /\ issued[1].op = "lexical"
        /\ response.kind = "results"

\* C16, amended: with vector search disabled, a search never requests an
\* embedding and never issues a kNN or hybrid query, and it returns a result
\* list; a search whose key is not cached issues exactly one lexical query and
\* returns its hits, or the empty list when that query fails; a search whose
\* key is cached issues no query at all
C16_LexicalOnly ==
    ~USE_VECTOR_SEARCH_FLAG =>
        /\ \A i \in 1..Len(issued) : issued[i].op = "lexical"
        /\ (at = "idle" /\ searches > 0) =>
              /\ response.kind = "results"
              /\ Len(response.results) <= top_k
              /\ IF from_cache
                 THEN issued = <<>>
                 ELSE /\ Len(issued) = 1
                      /\ (issued[1].outcome = "hits") <=> (response.results # <<>>)

\* with vector search disabled, a search whose lexical query failed has
\* returned the empty list
C16_FailedLexicalReturnedEmpty ==
    /\ ~USE_VECTOR_SEARCH_FLAG
    /\ Computed
    /\ issued = <<Call("lexical", top_k, "failed")>>
    /\ response = Response(<<>>)

\* the cached keys, as C17 writes them: stripped query, top_k, vector flag
StrippedKey(key) == <<Strip(key[1]), key[2], key[3]>>
CachedKeys == {StrippedKey(key) : key \in DOMAIN SEARCH_CACHE}
CachedFor(q, k) ==
    {SEARCH_CACHE[key] : key \in {c \in DOMAIN SEARCH_CACHE :
                                     StrippedKey(c) = <<Strip(q), k, USE_VECTOR_SEARCH_FLAG>>}}

\* a call of search_tickets
SearchStarts == at = "idle" /\ searches' = searches + 1

\* C17: the result of a search is cached under (stripped query, top_k,
\* vector flag) and stays cached unchanged; a search whose key is cached
\* returns the cached results at once, with no embedding call and no index
\* query; a search whose key is not cached is computed, by at least one index
\* query, and its result is what the cache then holds for its key
C17_CachedPerKey ==
    /\ [](Computed =>
            /\ issued # <<>>
            /\ CachedFor(query_text, top_k) = {response})
    /\ [](from_cache => (at = "idle" /\ issued = <<>>))
    /\ [][/\ \A key \in DOMAIN SEARCH_CACHE :
                key \in DOMAIN SEARCH_CACHE' /\ SEARCH_CACHE'[key] = SEARCH_CACHE[key]
          /\ SearchStarts =>
                IF <<Strip(query_text'), top_k', USE_VECTOR_SEARCH_FLAG>> \in CachedKeys
                THEN /\ at' = "idle"
                     /\ from_cache'
                     /\ issued' = <<>>
                     /\ CachedFor(query_text', top_k') = {response'}
                     /\ UNCHANGED search_caches
                ELSE /\ at' # "idle"
                     /\ ~from_cache']_vars

\* a search for a query was answered from the result cached for the same
\* query written with surrounding whitespace
C17_AnsweredFromCache ==
    /\ from_cache
    /\ at = "idle"
    /\ query_text = Q_Vpn
    /\ SearchKey(Q_VpnPadded, top_k, USE_VECTOR_SEARCH_FLAG) \in DOMAIN SEARCH_CACHE
    /\ response.results # <<>>

(***************************************************************************)
(* Properties of the embedding call (checked under SpecSearchLive)         *)
(***************************************************************************)
InEmbedding == at \in {"e_enter", "e_invoke", "e_sleep"}

\* the calls of one run of get_bedrock_embedding alternate: attempt 1, a wait
\* of backoff, attempt 2, a wait of 2 * backoff, attempt 3; an attempt is
\* followed by another only when it failed
AttemptsAndWaits(e) ==
    /\ Len(e) <= 2 * RetryAttempts - 1
    /\ \A i \in 1..Len(e) :
          IF i % 2 = 1
          THEN /\ e[i].op = "invoke_model"
               /\ e[i].n = (i + 1) \div 2
               /\ i < Len(e) => e[i].outcome = "failure"
          ELSE /\ e[i].op = "sleep"
               /\ e[i].n = Backoff * 2 ^ ((i \div 2) - 1)

\* C18: get_bedrock_embedding terminates; it calls the collaborator at most
\* retry_attempts times, waits backoff * 2^(attempt-1) between consecutive
\* attempts and not after the last one, and returns a vector or None
C18_BoundedRetries ==
    /\ [](/\ AttemptsAndWaits(EmbeddingCalls)
          /\ attempt <= RetryAttempts
          /\ at = "e_invoke" => Len(EmbeddingCalls) = 2 * (attempt - 1)
          /\ ~InEmbedding =>
                /\ EmbeddingCalls # <<>> => EmbeddingCalls[Len(EmbeddingCalls)].op = "invoke_model"
                /\ emb = PyNone \/ IsList(emb)
                /\ (EmbeddingCalls # <<>> /\ IsList(emb))
                      => EmbeddingCalls[Len(EmbeddingCalls)].outcome = "vector")
    /\ (InEmbedding ~> ~InEmbedding)

\* the call gave up after three failed attempts and two waits, and returned None
C18_GaveUpAfterThirdAttempt ==
    /\ at = "s_lexical"
    /\ emb = PyNone
    /\ EmbeddingCalls = <<Call("invoke_model", 1, "failure"), Call("sleep", 1, "slept"),
                          Call("invoke_model", 2, "failure"), Call("sleep", 2, "slept"),
                          Call("invoke_model", 3, "failure")>>

(***************************************************************************)
(* Properties of a rejected embedding request (checked under SpecSearch)   *)
(***************************************************************************)
\* the positions of the record of calls at which the collaborator rejected
\* the request with a validation error
Rejections == {i \in 1..Len(issued) : issued[i].outcome = "validation_error"}

\* C19: after a validation error get_bedrock_embedding makes no further
\* attempt and no wait and returns None; search then issues the lexical query
\* only and returns its result
C19_ValidationDegradesToLexical ==
    \A i \in Rejections :
        /\ at \in {"s_lexical", "idle"}
        /\ emb = PyNone
        /\ Len(issued) <= i + 1
        /\ Len(issued) = i + 1 => issued[i + 1].op = "lexical"
        /\ at = "idle" =>
              /\ Len(issued) = i + 1
              /\ response.kind = "results"
              /\ (issued[i + 1].outcome = "hits") <=> (response.results # <<>>)
              /\ SearchKey(query_text, top_k, USE_VECTOR_SEARCH_FLAG) \in DOMAIN SEARCH_CACHE

\* a search whose embedding request was rejected at the first attempt has
\* returned the hits of the lexical query
C19_RejectedThenLexicalHits ==
    /\ Computed
    /\ issued = <<Call("invoke_model", 1, "validation_error"), Call("lexical", top_k, "hits")>>
    /\ response.results # <<>>

(***************************************************************************)
(* Ticket identifiers (checked under SpecBuild)                            *)
(***************************************************************************)
IdentifierKeys == <<"ticketId", "id", "displayId">>

\* the positions of IdentifierKeys at which the ticket has a non-empty value
NonEmptyAt(t) ==
    {k \in 1..Len(IdentifierKeys) :
        IdentifierKeys[k] \in DOMAIN t.d /\ Truthy(t.d[IdentifierKeys[k]])}

Identified(t) == NonEmptyAt(t) # {}

\* the first non-empty of ticketId, id, displayId, as a string
IdentifierOf(t) ==
    Str(t.d[IdentifierKeys[CHOOSE k \in NonEmptyAt(t) : \A m \in NonEmptyAt(t) : k <= m]])

\* C22: a build gives every ticket that has an identifier exactly one Ticket
\* node, keyed on the first non-empty of ticketId, id, displayId, and has no
\* other Ticket node; the tickets without an identifier contribute nothing:
\* the graph is the one built from the list without them
C22_IdentifiedTicketsOnly ==
    \A t \in Threads :
        HasBuilt(t) =>
            LET l == tickets[t]
                g == built[t]
                keys == {MakeId(P_TICKET, IdentifierOf(l[i])) :
                            i \in {j \in 1..Len(l) : Identified(l[j])}}
            IN  /\ \A key \in keys :
                       Cardinality({n \in 1..Len(g.nodes) :
                                       g.nodes[n].id = key /\ g.nodes[n].type = "Ticket"}) = 1
                /\ \A n \in 1..Len(g.nodes) : g.nodes[n].type = "Ticket" => g.nodes[n].id \in keys
                /\ g = BuildKgFromTickets(SelectSeq(l, Identified))

\* a finished build of a ticket without identifier that names a technician and
\* a ticket identified by "id" only: one Ticket node, one Technician node
C22_UnidentifiedSkipped ==
    \E t \in Threads :
        /\ HasBuilt(t)
        /\ tickets[t] = <<T_NoId, T_Vpn5>>
        /\ Cardinality(NodesOfType(built[t], "Ticket")) = 1
        /\ Cardinality(NodesOfType(built[t], "Technician")) = 1

(***************************************************************************)
(* Explicit similarity links (checked under SpecBuild)                     *)
(***************************************************************************)
SimilarityKeys == <<"similar_ticket_ids", "similar", "relatedTickets">>

\* the similarity list of a ticket: the first non-empty value under
\* SimilarityKeys, when it is a list; no entries otherwise
SimilarityEntries(t) ==
    LET at_keys == {k \in 1..Len(SimilarityKeys) :
                       SimilarityKeys[k] \in DOMAIN t.d /\ Truthy(t.d[SimilarityKeys[k]])}
    IN  IF at_keys = {} THEN <<>>
        ELSE LET v == t.d[SimilarityKeys[CHOOSE k \in at_keys : \A m \in at_keys : k <= m]]
             IN  IF IsList(v) THEN v.items ELSE <<>>

KnownIdentifiers(l) == {IdentifierOf(l[i]) : i \in {j \in 1..Len(l) : Identified(l[j])}}

\* the entries <<ticket, position>> of similarity lists that resolve to a
\* known identifier and lead from node a to node b
ResolvedEntries(l, a, b) ==
    {p \in UNION {{<<i, e>> : e \in 1..Len(SimilarityEntries(l[i]))} : i \in 1..Len(l)} :
        /\ Identified(l[p[1]])
        /\ Str(SimilarityEntries(l[p[1]])[p[2]]) \in KnownIdentifiers(l)
        /\ MakeId(P_TICKET, IdentifierOf(l[p[1]])) = a
        /\ MakeId(P_TICKET, Str(SimilarityEntries(l[p[1]])[p[2]])) = b}

Endpoints ==
    [resolved    |-> <<"Technician", "Ticket">>,
     category    |-> <<"Ticket", "Category">>,
     root_cause  |-> <<"Ticket", "RootCause">>,
     asset       |-> <<"Ticket", "Asset">>,
     step        |-> <<"Ticket", "Step">>,
     client_site |-> <<"Ticket", "Client">>,
     impact      |-> <<"Ticket", "Impact">>,
     similar_to  |-> <<"Ticket", "Ticket">>]

\* the types of the nodes with this id
TypesOf(nodes, id) == {nodes[i].type : i \in {j \in 1..Len(nodes) : nodes[j].id = id}}

WellTyped(nodes, edges) ==
    \A i \in 1..Len(edges) :
        /\ edges[i].type \in DOMAIN Endpoints
        /\ TypesOf(nodes, edges[i].source) = {Endpoints[edges[i].type][1]}
        /\ TypesOf(nodes, edges[i].target) = {Endpoints[edges[i].type][2]}

\* C24: in every built graph - the builder's result, the cache once both parts
\* are stored, every copy get_kg returns - each edge joins nodes of the types
\* its edge type prescribes
C24_EdgesWellTyped ==
    /\ kg_lock = NoThread => WellTyped(KG_NODES, KG_EDGES)
    /\ \A t \in Threads :
           /\ HasBuilt(t) => WellTyped(built[t].nodes, built[t].edges)
           /\ ret[t].kind = "kg" => WellTyped(ret[t].nodes, ret[t].edges)

\* a finished build whose edges have all eight types
C24_EveryEdgeTypeBuilt ==
    \E t \in Threads :
        /\ HasBuilt(t)
        /\ {built[t].edges[i].type : i \in 1..Len(built[t].edges)} = DOMAIN Endpoints

\* the ids of the nodes
NodeIds(nodes) == {nodes[i].id : i \in 1..Len(nodes)}

Closed(nodes, edges) ==
    \A i \in 1..Len(edges) :
        edges[i].source \in NodeIds(nodes) /\ edges[i].target \in NodeIds(nodes)

\* C25: the source and the target of every edge are ids of nodes of the same
\* build: in the builder's result, in the cache once both parts are stored,
\* and in every copy get_kg returns
C25_EdgesReferToNodes ==
    /\ kg_lock = NoThread => Closed(KG_NODES, KG_EDGES)
    /\ \A t \in Threads :
           /\ HasBuilt(t) => Closed(built[t].nodes, built[t].edges)
           /\ ret[t].kind = "kg" => Closed(ret[t].nodes, ret[t].edges)

\* get_kg returned a graph with edges from and to Ticket nodes
C25_GraphWithEdgesReturned ==
    \E t \in Threads :
        /\ ret[t].kind = "kg"
        /\ \E i, j \in 1..Len(ret[t].edges) :
              /\ ret[t].edges[i].type = "resolved"
              /\ ret[t].edges[j].type = "impact"

(***************************************************************************)
(* Self-similarity (checked under SpecBuild)                               *)
(***************************************************************************)
SelfLoops(edges) == {i \in SimilarTo(edges) : edges[i].source = edges[i].target}

\* C29: no similar_to edge of a built graph - the builder's result, the
\* cached edges, a copy get_kg returns - has the same node as source and
\* target, also when a ticket names its own identifier in its similarity list
\* or two records share an identifier
C29_NoSelfSimilarity ==
    /\ SelfLoops(KG_EDGES) = {}
    /\ \A t \in Threads :
           /\ HasBuilt(t) => SelfLoops(built[t].edges) = {}
           /\ ret[t].kind = "kg" => SelfLoops(ret[t].edges) = {}

\* what the code keeps of C29: a similar_to edge from a node to itself comes
\* from a ticket that names its own identifier, or from two records that
\* share an identifier
C29_SelfLoopsExplained ==
    \A t \in Threads :
        HasBuilt(t) =>
            \A i \in SelfLoops(built[t].edges) :
                LET l == tickets[t]
                    a == built[t].edges[i].source
                IN  \/ ResolvedEntries(l, a, a) # {}
                    \/ \E m, n \in 1..Len(l) :
                          /\ m < n
                          /\ Identified(l[m]) /\ Identified(l[n])
                          /\ MakeId(P_TICKET, IdentifierOf(l[m])) = a
                          /\ MakeId(P_TICKET, IdentifierOf(l[n])) = a

(***************************************************************************)
(* A build that raises during a reload (checked under SpecReload)          *)
(***************************************************************************)
\* the last call of the thread was a reload, and it is over
ReloadEnded(t) ==
    /\ pc[t] = "idle"
    /\ ret[t].kind = "status" \/ ret[t] = Raised("reload_kb_from_s3_or_local")

\* the build of that reload raised: in get_tickets, which cannot copy a store
\* that is not a list, or in _build_kg_from_tickets
BuildRaised(t) == built[t].raised \/ ~Iterable(TICKETS)

\* the graphs of the documents whose build completes, and the empty cache
CompletedBuilds ==
    {EmptyGraph} \cup
        {BuildKgFromTickets(d.items) :
            d \in {b \in Blobs : Iterable(b) /\ ~BuildKgFromTickets(b.items).raised}}

\* C27: when the build raised during a reload, the reload has returned its
\* status, counting the snapshot it installed, and the cache holds a graph
\* completed earlier
C27_ReloadSurvivesRaisedBuild ==
    \A t \in Threads :
        (ReloadEnded(t) /\ BuildRaised(t)) =>
            /\ ret[t].kind = "status"
            /\ ret[t].count = PyLen(TICKETS)
            /\ [nodes |-> KG_NODES, edges |-> KG_EDGES, raised |-> FALSE] \in CompletedBuilds

\* the step of a build in which the exception is raised
RaisingStep(t) ==
    \/ pc[t] = "b_build" /\ built'[t].raised
    \/ pc[t] = "gt_copy" /\ stack[t] # <<>> /\ Head(stack[t]) = "b_build" /\ ~Iterable(TICKETS)

\* what the code keeps of C27: the step that raises in a build leaves the
\* cache as it was, releases the graph lock and, in a reload, continues at
\* the return statement; a reload whose snapshot is a list then returns its
\* status, the snapshot installed and the cache still untouched
C27_RaisedBuildLeavesCache ==
    [][\A t \in Threads :
          /\ RaisingStep(t) =>
                /\ UNCHANGED <<KG_NODES, KG_EDGES, KG_LAST_BUILT, TICKETS>>
                /\ kg_lock' = NoThread
                /\ tickets_lock' = NoThread
                /\ pc'[t] \in {"r_ret", "gk_lock", "i_done"}
          /\ (pc[t] = "r_ret" /\ BuildRaised(t) /\ HasLen(kb[t]) /\ Head(stack[t]) = "top") =>
                /\ UNCHANGED <<KG_NODES, KG_EDGES, KG_LAST_BUILT, TICKETS>>
                /\ TICKETS = kb[t]
                /\ ret'[t] = RetStatus(PyLen(kb[t]), fetched_from[t], LAST_UPDATED)]_vars

\* a reload of a list with a malformed ticket has returned its status while
\* the cache still holds the graph of the tickets installed before
C27_StaleGraphAfterRaisedBuild ==
    \E t \in Threads :
        /\ ReloadEnded(t)
        /\ built[t].raised
        /\ ret[t].kind = "status"
        /\ TICKETS = DS_Malformed
        /\ KG_NODES = BuildKgFromTickets(DS_Vpn.items).nodes

(***************************************************************************)
(* What the result cache holds (checked under SpecSearch)                  *)
(***************************************************************************)
\* every index query of the current search failed
AllQueriesFailed ==
    /\ IndexQueries # <<>>
    /\ \A i \in 1..Len(IndexQueries) : IndexQueries[i].outcome = "failed"

\* C28: a search whose index queries all failed has returned the empty list
\* and has left no entry for its key in the result cache
C28_FailedSearchNotCached ==
    (Computed /\ AllQueriesFailed) =>
        /\ response = Response(<<>>)
        /\ SearchKey(query_text, top_k, USE_VECTOR_SEARCH_FLAG) \notin DOMAIN SEARCH_CACHE

\* what the code keeps of C28: a search whose index queries all failed
\* returns the empty list; it caches that list under its key
C28_FailedSearchCachedEmpty ==
    (Computed /\ AllQueriesFailed) =>
        /\ response = Response(<<>>)
        /\ SearchKey(query_text, top_k, USE_VECTOR_SEARCH_FLAG) \in DOMAIN SEARCH_CACHE
        /\ SEARCH_CACHE[SearchKey(query_text, top_k, USE_VECTOR_SEARCH_FLAG)] = Response(<<>>)

(***************************************************************************)
(* Graph and ticket store (checked under SpecBuild)                        *)
(***************************************************************************)
\* the build of the import is over and its graph is in the cache
BuildInstalled == pc[Importer] \in {"i_done", "idle", "gk_lock", "gk_copy"}

TicketNodes(nodes) == {i \in 1..Len(nodes) : nodes[i].type = "Ticket"}

\* C30: once the reload and its build have completed, find_ticket called with
\* the identifier a Ticket node of the cache was keyed on - the first
\* non-empty of ticketId, id, displayId of the node's ticket - returns that ticket
C30_NodesFoundById ==
    BuildInstalled =>
        \A i \in TicketNodes(KG_NODES) :
            FindTicket(TICKETS, IdentifierOf(KG_NODES[i].meta.ticket))
                = RetFound(KG_NODES[i].meta.ticket)

TicketIdOrDisplayId(t) ==
    \E key \in {"ticketId", "displayId"} \cap DOMAIN t.d : Truthy(t.d[key])

\* what the code keeps of C30: the Ticket nodes keyed on a ticketId or on a
\* displayId are found; a ticket identified by "id" only is not
C30_NodesWithTicketIdFound ==
    BuildInstalled =>
        \A i \in TicketNodes(KG_NODES) :
            LET t == KG_NODES[i].meta.ticket
            IN  IF TicketIdOrDisplayId(t)
                THEN FindTicket(TICKETS, IdentifierOf(t)) = RetFound(t)
                ELSE FindTicket(TICKETS, IdentifierOf(t)) = RetNotFound

(***************************************************************************)
(* Locks (checked under SpecLocks)                                         *)
(***************************************************************************)
Idle(t) == pc[t] = "idle"

Holds(t) == {l \in {"tickets", "kg"} : (l = "tickets" /\ tickets_lock = t) \/ (l = "kg" /\ kg_lock = t)}

\* the steps that wait for _KG_LOCK
AwaitsKgLock(t) == pc[t] \in {"b_lock", "gk_lock"}

\* the steps that wait for _TICKETS_LOCK
AwaitsTicketsLock(t) == pc[t] \in {"gt_lock", "ft_lock"}

\* the one nesting: _TICKETS_LOCK is taken inside _KG_LOCK by get_tickets called
\* from _build_kg_cache, and _KG_LOCK is never awaited by the owner of a lock
LockOrder ==
    \A t \in Threads :
        /\ AwaitsKgLock(t) => Holds(t) = {}
        /\ AwaitsTicketsLock(t) => "tickets" \notin Holds(t)
        /\ ("kg" \in Holds(t) /\ (AwaitsTicketsLock(t) \/ "tickets" \in Holds(t)))
               => Head(stack[t]) = "b_build"

\* C26: no thread awaits the graph lock while it owns a lock (the only nesting is
\* graph lock then ticket lock, inside _build_kg_cache), a thread outside every
\* call owns no lock, and every call and the import of the module come to
\* their end, also when get_tickets or the builder raises inside the locks
C26_DeadlockFreedom ==
    /\ [](LockOrder /\ \A t \in Threads : Idle(t) => Holds(t) = {})
    /\ \A t \in Threads : (~Idle(t)) ~> Idle(t)

\* a thread is at the copy of a store that is not a list, inside both locks -
\* list() raises there - while the other thread waits for the graph lock
C26_WaitingForRaisingBuild ==
    \E t, u \in Threads :
        /\ t # u
        /\ pc[t] = "gt_copy"
        /\ Holds(t) = {"tickets", "kg"}
        /\ ~Iterable(TICKETS)
        /\ AwaitsKgLock(u)

(***************************************************************************)
(* search_tickets_by_text (checked under SpecText)                         *)
(***************************************************************************)
\* the text of a field: its string form, empty when the record has no such key
FieldText(t, key) == IF key \in DOMAIN t.d THEN Lower(Str(t.d[key])) ELSE <<>>

IsSubstring(q, s) == \E a, b \in 0..Len(s) : a <= b /\ q = [i \in 1..(b - a) |-> s[a + i]]

\* 10 for the subject plus 2 for the description
Points(t, q) ==
    (IF IsSubstring(q, FieldText(t, "subject")) THEN SubjectScore ELSE 0)
        + (IF IsSubstring(q, FieldText(t, "description")) THEN DescriptionScore ELSE 0)

\* the positions of the store with a positive score
Scored(items, q) == {p \in 1..Len(items) : Points(items[p], q) > 0}

\* p comes before r: a higher score, or the same score and an earlier position
Before(items, q, p, r) ==
    \/ Points(items[p], q) > Points(items[r], q)
    \/ Points(items[p], q) = Points(items[r], q) /\ p < r

\* the place of a scored position in the ranking
Rank(items, q, p) == 1 + Cardinality({r \in Scored(items, q) : Before(items, q, r, p)})

\* hits are the tickets ranked 1 .. min(top_k, number of scored tickets)
IsRanking(items, text, k, hits) ==
    LET q == Lower(Strip(text))
        n == Cardinality(Scored(items, q))
    IN  /\ Len(hits) = (IF n > k THEN k ELSE n)
        /\ \A i \in 1..Len(hits) :
               \E p \in Scored(items, q) : Rank(items, q, p) = i /\ hits[i] = items[p]

WellFormed(store) == Iterable(store) /\ \A p \in 1..Len(store.items) : IsDict(store.items[p])

\* the step of t in which search_tickets_by_text returns or raises
TextSearchEnds(t) ==
    \/ pc[t] = "st_scan" /\ pc'[t] = "idle"
    \/ pc[t] = "idle" /\ pc'[t] = "idle" /\ calls' # calls /\ ret'[t].kind = "hits"

\* C21: a search_tickets_by_text call on a store that is a list of records
\* returns the tickets with a positive score - 10 for the trimmed lower-cased
\* query in the subject plus 2 for it in the description - by descending score,
\* equal scores in store order, cut to top_k; an empty query returns [] whatever
\* the store is; any other query raises on a store that is not a list of records
C21_SearchByTextRanking ==
    [][\A t \in Threads :
         TextSearchEnds(t) =>
             IF query'[t] = <<>> THEN ret'[t] = RetHits(<<>>)
             ELSE IF WellFormed(TICKETS)
                  THEN /\ ret'[t].kind = "hits"
                       /\ IsRanking(TICKETS.items, query'[t], query_top_k'[t], ret'[t].items)
                  ELSE ret'[t] = Raised("search_tickets_by_text")]_vars

\* " vPn " with top_k 3 over the five tickets: 12 for ticket 23, then 10 for
\* tickets 21 and 24 in store order; ticket 22 with its 2 is cut
C21_TieKeptAndCut ==
    \E t \in Threads :
        /\ pc[t] = "idle"
        /\ TICKETS = DS_Text
        /\ query[t] = Q_Padded
        /\ query_top_k[t] = 3
        /\ ret[t] = RetHits(<<X_Both23, X_Subject21, X_Subject24>>)

====
